---- MODULE Spec2Model ----
(***************************************************************************)
(* BRVM: the bytecode compiler (src/src/compiler.rs) and the stack virtual *)
(* machine (src/src/vm.rs, src/src/value.rs) over the AST of               *)
(* src/src/parser.rs.                                                      *)
(*                                                                         *)
(* Conventions of the model:                                               *)
(*  - a Rust String / Vec<u8> is a sequence of bytes (0..255); a source    *)
(*    name (identifier) is a TLA+ string, as_bytes gives its bytes;        *)
(*  - Option<T> is a sequence of length 0 (None) or 1 (Some);              *)
(*  - Result<T, String> is the value plus a field err ("" is Ok);          *)
(*  - a HashMap is a function whose DOMAIN is the set of its keys;         *)
(*  - code positions are 0-based as in the source; code[[p]] of the source *)
(*    is code[p + 1] here;                                                 *)
(*  - an f64 is an integer here: the literals of the lexer are             *)
(*    non-negative, and results that are not integers of magnitude at most *)
(*    MaxInt are not followed (the guard Followed of Step).                *)
(***************************************************************************)
EXTENDS Integers, Sequences, FiniteSets, TLC

VARIABLES
    source,               \* the text handed to tokenize (main.rs:64)
    tokens,               \* Result<Vec<Token>, CompileError>: what parse is handed
    parsed,               \* Result<Program, CompileError> of parse (main.rs:65)
    prog,                 \* the Program handed to compile (parser.rs:58)
    pc,                   \* position in compile / execute
    comp,                 \* the Compiler (compiler.rs:46)
    function_code_parts,  \* the local of compile() (compiler.rs:13)
    next_stmt,            \* index of the next main statement (compiler.rs:16)
    artifact,             \* Result<Vec<u8>, String> of compile, the file read by exec
    vm,                   \* the VM (vm.rs:49) with its status
    out                   \* the lines printed so far (vm.rs:300)

vars == <<source, tokens, parsed, prog, pc, comp, function_code_parts, next_stmt, artifact, vm, out>>

\* the front end: the lexer and the parser
front == <<source, tokens, parsed>>

-----------------------------------------------------------------------------
(* Bounds of the model *)

MaxNum == 1          \* numeric literals are 0..MaxNum
MaxMain == 2         \* main blocks have a prefix of at most MaxMain - 1 statements
MaxInt == 3          \* runtime numbers are kept within -MaxInt..MaxInt
MaxStack == 4        \* the value stack is followed up to MaxStack values
MaxOut == 3          \* printed lines are followed up to MaxOut lines
MaxBody == 2         \* function bodies have a prefix of at most MaxBody - 1 statements
MaxArgs == 2         \* calls of the enumerated programs pass at most MaxArgs arguments
MaxDepth == 258      \* the call stack is followed up to MaxDepth frames

-----------------------------------------------------------------------------
(* Little-endian encodings *)

Pow2(k) == 2 ^ k

\* u16::to_le_bytes
u16_to_le_bytes(v) == << v % 256, (v \div 256) % 256 >>

\* u32::to_le_bytes (values of the model stay below 2^31)
u32_to_le_bytes(v) ==
    << v % 256, (v \div 256) % 256, (v \div 65536) % 256, (v \div 16777216) % 256 >>

\* u16::from_le_bytes
u16_from_le_bytes(b) == b[1] + 256 * b[2]

\* u32::from_le_bytes; a value of 2^31 or more is kept as the largest integer
\* of the checker, which compares like it against every length of the model
u32_from_le_bytes(b) ==
    IF b[4] >= 128 THEN 2147483647
    ELSE b[1] + 256 * b[2] + 65536 * b[3] + 16777216 * b[4]

\* floor(log2 n) for 1 <= n < 2^20
Log2(n) == CHOOSE e \in 0..20 : Pow2(e) <= n /\ n < Pow2(e + 1)

\* f64::to_le_bytes of the integer n, |n| < 2^20: IEEE-754 binary64
f64_to_le_bytes(n) ==
    IF n = 0 THEN <<0, 0, 0, 0, 0, 0, 0, 0>>
    ELSE LET a == IF n < 0 THEN 0 - n ELSE n
             e == Log2(a)
             top20 == (a - Pow2(e)) * Pow2(20 - e)
             ex == 1023 + e
             sign == IF n < 0 THEN 128 ELSE 0
         IN  << 0, 0, 0, 0, top20 % 256, (top20 \div 256) % 256,
                ((ex % 16) * 16) + (top20 \div 65536), sign + (ex \div 16) >>

\* whether the eight bytes are the binary64 of an integer of magnitude < 2^20
f64_is_small_int(b) ==
    \/ b = <<0, 0, 0, 0, 0, 0, 0, 0>>
    \/ LET ex == (b[8] % 128) * 16 + (b[7] \div 16)
           top20 == (b[7] % 16) * 65536 + b[6] * 256 + b[5]
       IN  /\ b[1] = 0 /\ b[2] = 0 /\ b[3] = 0 /\ b[4] = 0
           /\ ex >= 1023 /\ ex < 1043
           /\ top20 % Pow2(20 - (ex - 1023)) = 0

\* f64::from_le_bytes on such bytes
f64_from_le_bytes(b) ==
    IF b = <<0, 0, 0, 0, 0, 0, 0, 0>> THEN 0
    ELSE LET ex == (b[8] % 128) * 16 + (b[7] \div 16)
             top20 == (b[7] % 16) * 65536 + b[6] * 256 + b[5]
             e == ex - 1023
             a == Pow2(e) + (top20 \div Pow2(20 - e))
         IN  IF b[8] >= 128 THEN 0 - a ELSE a

-----------------------------------------------------------------------------
(* The AST (parser.rs:4-61) *)

Number(n) == [k |-> "Number", n |-> n]
String(s) == [k |-> "String", s |-> s]
Variable(name) == [k |-> "Variable", name |-> name]
Binary(op, left, right) == [k |-> "Binary", op |-> op, left |-> left, right |-> right]
FunctionCall(name, arg) == [k |-> "FunctionCall", name |-> name, arg |-> arg]
UserFunctionCall(name, args) == [k |-> "UserFunctionCall", name |-> name, args |-> args]

Assign(name, expr) == [k |-> "Assign", name |-> name, expr |-> expr]
Copy(dest, from) == [k |-> "Copy", dest |-> dest, source |-> from]
PrintStmt(expr) == [k |-> "Print", expr |-> expr]
If(condition, then_block, else_block) ==
    [k |-> "If", condition |-> condition, then_block |-> then_block, else_block |-> else_block]
While(condition, body) == [k |-> "While", condition |-> condition, body |-> body]
Return(expr) == [k |-> "Return", expr |-> expr]
Halt == [k |-> "Halt"]

Function(name, params, body) == [name |-> name, params |-> params, body |-> body]
Program(functions, main_statements) ==
    [functions |-> functions, main_statements |-> main_statements]

\* str::as_bytes of the names that reach the constant pool (function names)
as_bytes(name) ==
    CASE name = "f" -> <<102>>
      [] name = "g" -> <<103>>
      [] OTHER -> <<63>>

-----------------------------------------------------------------------------
(* The compiler (compiler.rs) *)

EmptyMap == [x \in {} |-> 0]
Insert(m, key, v) == [x \in (DOMAIN m) \cup {key} |-> IF x = key THEN v ELSE m[x]]

ConstNumber(n) == [tag |-> "Number", n |-> n]
ConstString(s) == [tag |-> "String", s |-> s]

\* impl PartialEq for Constant
ConstantEq(a, b) ==
    CASE a.tag = "Number" /\ b.tag = "Number" -> a.n = b.n
      [] a.tag = "String" /\ b.tag = "String" -> a.s = b.s
      [] OTHER -> FALSE

\* impl Hash for Constant: the discriminant, then the bits or the bytes
ConstantHash(a) ==
    IF a.tag = "Number" THEN <<"Number", f64_to_le_bytes(a.n)>> ELSE <<"String", a.s>>

\* Compiler::new
CompilerNew ==
    [ constants |-> <<>>, const_map |-> EmptyMap, functions |-> <<>>,
      function_map |-> EmptyMap, code |-> <<>>, current_locals |-> EmptyMap,
      function_code_parts |-> <<>>, err |-> "" ]

Fail(c, msg) == [c EXCEPT !.err = msg]

emit_op(c, op) == [c EXCEPT !.code = Append(@, op)]
emit_u8(c, val) == [c EXCEPT !.code = Append(@, val)]
emit_u16(c, val) == [c EXCEPT !.code = @ \o u16_to_le_bytes(val)]
emit_u32(c, val) == [c EXCEPT !.code = @ \o u32_to_le_bytes(val)]

\* self.code[pos..pos+4].copy_from_slice(&val.to_le_bytes())
backpatch(c, pos, val) ==
    [c EXCEPT !.code = [i \in 1..Len(@) |->
        IF i > pos /\ i <= pos + 4 THEN u32_to_le_bytes(val)[i - pos] ELSE @[i]]]

\* HashMap::get on const_map: a key of equal hash that is eq
const_map_get(c, constant) ==
    {c.const_map[key] : key \in {x \in DOMAIN c.const_map :
        ConstantHash(x) = ConstantHash(constant) /\ ConstantEq(x, constant)}}

\* the value of a Result<(), String> so far, then the rest of the body: the `?`
Try(c, rest(_)) == IF c.err # "" THEN c ELSE rest(c)

\* let v = ...; then the rest of the body
Let(v, rest(_)) == rest(v)

\* a pool without interning: every constant is pushed
add_const_fresh(c, constant) ==
    [ c |-> [c EXCEPT !.constants = Append(@, constant),
                      !.const_map = Insert(@, constant, Len(c.constants))],
      idx |-> Len(c.constants) ]

add_const(c, constant) ==
    Let(const_map_get(c, constant), LAMBDA hit :
        IF hit # {} THEN [c |-> c, idx |-> CHOOSE i \in hit : TRUE]
        ELSE [ c |-> [c EXCEPT !.constants = Append(@, constant),
                               !.const_map = Insert(@, constant, Len(c.constants))],
               idx |-> Len(c.constants) ])

names == <<"aura", "peak", "goon", "mog", "npc", "sigma", "gyatt">>

\* a lookup that takes every name for the first braincell
get_braincell_index_lenient(name) == [ok |-> TRUE, idx |-> 0]

\* Result<u8, String>: idx is the position, ok is FALSE for Err
get_braincell_index(name) ==
    LET hit == {i \in 1..Len(names) : names[i] = name} IN
    IF hit = {} THEN [ok |-> FALSE, idx |-> 0]
    ELSE [ok |-> TRUE, idx |-> (CHOOSE i \in hit : TRUE) - 1]

emit_store(c, var_name) ==
    IF DOMAIN c.current_locals # {}
    THEN LET known == var_name \in DOMAIN c.current_locals
             local_idx == IF known THEN c.current_locals[var_name]
                          ELSE Cardinality(DOMAIN c.current_locals) % 65536
             c1 == IF known THEN c
                   ELSE [c EXCEPT !.current_locals = Insert(@, var_name, local_idx)]
         IN  emit_u16(emit_op(c1, 16), local_idx)
    ELSE LET r == get_braincell_index(var_name) IN
         IF ~r.ok THEN Fail(c, "unknown braincell")
         ELSE emit_u8(emit_op(c, 4), r.idx)

emit_load(c, var_name) ==
    IF var_name \in DOMAIN c.current_locals
    THEN emit_u16(emit_op(c, 15), c.current_locals[var_name])
    ELSE LET r == get_braincell_index(var_name) IN
         IF ~r.ok THEN Fail(c, "unknown braincell")
         ELSE emit_u8(emit_op(c, 3), r.idx)

BinaryOpcode(op) ==
    CASE op = "Add" -> 5
      [] op = "Subtract" -> 6
      [] op = "Multiply" -> 7
      [] op = "Divide" -> 8

RECURSIVE compile_expr(_, _)
RECURSIVE compile_args(_, _)

\* for arg in args { self.compile_expr(arg)?; }
compile_args(c, args) ==
    IF args = <<>> THEN c
    ELSE Try(compile_expr(c, Head(args)), LAMBDA c1 : compile_args(c1, Tail(args)))

\* let idx = self.add_const(..); self.emit_op(0x02); self.emit_u32(idx)
load_const(c, constant) ==
    Let(add_const(c, constant), LAMBDA r : emit_u32(emit_op(r.c, 2), r.idx))

builtin_call(c, e, idx, msg) ==
    IF e.arg = <<>> THEN Fail(c, msg)
    ELSE Try(compile_expr(c, e.arg[1]), LAMBDA c1 : emit_u32(emit_op(c1, 13), idx))

compile_expr(c, e) ==
    CASE e.k = "Number" -> load_const(c, ConstNumber(e.n))
      [] e.k = "String" -> load_const(c, ConstString(e.s))
      [] e.k = "Variable" -> emit_load(c, e.name)
      [] e.k = "Binary" ->
            Try(compile_expr(c, e.left), LAMBDA c1 :
            Try(compile_expr(c1, e.right), LAMBDA c2 :
            emit_op(c2, BinaryOpcode(e.op))))
      [] e.k = "FunctionCall" ->
            IF e.name = "TOUCHY" THEN emit_op(c, 10)
            ELSE IF e.name = "TRANSFORM"
                 THEN builtin_call(c, e, 0, "TRANSFORM requires argument")
            ELSE IF e.name = "RIZZED"
                 THEN builtin_call(c, e, 1, "RIZZED requires argument")
            ELSE Fail(c, "Unknown function")
      [] e.k = "UserFunctionCall" ->
            Try(compile_args(c, e.args), LAMBDA c1 :
            IF e.name \notin DOMAIN c1.function_map
            THEN Fail(c1, "undefined function")
            ELSE emit_u32(emit_op(c1, 13), c1.function_map[e.name]))

RECURSIVE compile_statement(_, _)
RECURSIVE compile_block(_, _)

\* for stmt in block { self.compile_statement(stmt)?; }
compile_block(c, block) ==
    IF block = <<>> THEN c
    ELSE Try(compile_statement(c, Head(block)), LAMBDA c1 : compile_block(c1, Tail(block)))

store_expr(c, expr, name) ==
    Try(compile_expr(c, expr), LAMBDA c1 : emit_store(c1, name))

\* an if whose jumps keep their placeholders
compile_if_unpatched(c, s) ==
    Try(compile_expr(c, s.condition), LAMBDA c1 :
    Try(compile_block(emit_u32(emit_op(c1, 12), 0), s.then_block), LAMBDA c4 :
    IF s.else_block # <<>>
    THEN compile_block(emit_u32(emit_op(c4, 11), 0), s.else_block[1])
    ELSE c4))

compile_if(c, s) ==
    Try(compile_expr(c, s.condition), LAMBDA c1 :
    Let(emit_op(c1, 12), LAMBDA c2 :
    Let(Len(c2.code), LAMBDA jump_pos :
    Try(compile_block(emit_u32(c2, 0), s.then_block), LAMBDA c4 :
    IF s.else_block # <<>>
    THEN Let(emit_op(c4, 11), LAMBDA c5 :
         Let(Len(c5.code), LAMBDA jump_end_pos :
         Let(emit_u32(c5, 0), LAMBDA c6 :
         Let(Len(c6.code), LAMBDA else_start :
         Try(compile_block(backpatch(c6, jump_pos, else_start), s.else_block[1]),
             LAMBDA c8 : backpatch(c8, jump_end_pos, Len(c8.code)))))))
    ELSE backpatch(c4, jump_pos, Len(c4.code))))))

\* a while whose JUMP goes on behind the loop
compile_while_once(c, s) ==
    Try(compile_expr(c, s.condition), LAMBDA c1 :
    Let(emit_op(c1, 12), LAMBDA c2 :
    Let(Len(c2.code), LAMBDA jump_pos :
    Try(compile_block(emit_u32(c2, 0), s.body), LAMBDA c4 :
    Let(emit_u32(emit_op(c4, 11), Len(c4.code) + 5), LAMBDA c5 :
    backpatch(c5, jump_pos, Len(c5.code)))))))

compile_while(c, s) ==
    Let(Len(c.code), LAMBDA loop_start :
    Try(compile_expr(c, s.condition), LAMBDA c1 :
    Let(emit_op(c1, 12), LAMBDA c2 :
    Let(Len(c2.code), LAMBDA jump_pos :
    Try(compile_block(emit_u32(c2, 0), s.body), LAMBDA c4 :
    Let(emit_u32(emit_op(c4, 11), loop_start), LAMBDA c5 :
    backpatch(c5, jump_pos, Len(c5.code))))))))

\* compile_statement whose copy leaves the value on the stack
compile_statement_copy_without_store(c, s) ==
    CASE s.k = "Assign" -> store_expr(c, s.expr, s.name)
      [] s.k = "Copy" -> compile_expr(c, s.source)
      [] s.k = "Print" -> Try(compile_expr(c, s.expr), LAMBDA c1 : emit_op(c1, 9))
      [] s.k = "Return" -> Try(compile_expr(c, s.expr), LAMBDA c1 : emit_op(c1, 14))
      [] s.k = "Halt" -> emit_op(c, 18)
      [] s.k = "If" -> compile_if(c, s)
      [] s.k = "While" -> compile_while(c, s)

compile_statement(c, s) ==
    CASE s.k = "Assign" -> store_expr(c, s.expr, s.name)
      [] s.k = "Copy" -> store_expr(c, s.source, s.dest)
      [] s.k = "Print" -> Try(compile_expr(c, s.expr), LAMBDA c1 : emit_op(c1, 9))
      [] s.k = "Return" -> Try(compile_expr(c, s.expr), LAMBDA c1 : emit_op(c1, 14))
      [] s.k = "Halt" -> emit_op(c, 18)
      [] s.k = "If" -> compile_if(c, s)
      [] s.k = "While" -> compile_while(c, s)

compile_main_statement(c, s) == compile_statement(c, s)

RECURSIVE insert_params(_, _, _)
\* for (idx, param) in func.params.iter().enumerate() { insert(param, idx as u16) }
insert_params(locals, params, idx) ==
    IF params = <<>> THEN locals
    ELSE insert_params(Insert(locals, Head(params), idx % 65536), Tail(params), idx + 1)

\* a body left as the user wrote it, with no default return
close_body_never(c, func) == c

\* a default return whose value is 0.0
close_body_returns_zero(c, func) ==
    IF func.body # <<>> /\ func.body[Len(func.body)].k = "Return" THEN c
    ELSE emit_op(load_const(c, ConstNumber(0)), 14)

\* the function-body closure rule (compiler.rs:118-130)
close_body(c, func) ==
    IF func.body # <<>> /\ func.body[Len(func.body)].k = "Return" THEN c
    ELSE emit_op(load_const(c, ConstString(<<>>)), 14)

FunctionInfo(func, c) ==
    [ name |-> func.name, arity |-> Len(func.params) % 65536,
      local_count |-> Cardinality(DOMAIN c.current_locals) % 65536, code_offset |-> 0 ]

\* a registration that numbers the user functions from 0
register_function_from_zero(c, func, saved_code, saved_locals) ==
    [c EXCEPT !.code = saved_code,
              !.function_map = Insert(@, func.name, Len(c.functions)),
              !.functions = Append(@, FunctionInfo(func, c)),
              !.function_code_parts = Append(@, c.code),
              !.current_locals = saved_locals]

\* compiler.rs:132-151: the function is registered and the saved state restored
register_function(c, func, saved_code, saved_locals) ==
    [c EXCEPT !.code = saved_code,
              !.function_map = Insert(@, func.name, 2 + Len(c.functions)),
              !.functions = Append(@, FunctionInfo(func, c)),
              !.function_code_parts = Append(@, c.code),
              !.current_locals = saved_locals]

\* compile_function that declares the name before it compiles the body
compile_function_declared_first(c, func) ==
    Let(add_const([c EXCEPT !.code = <<>>, !.current_locals = EmptyMap,
                            !.function_map = Insert(@, func.name, 2 + Len(c.functions))],
                  ConstString(as_bytes(func.name))).c, LAMBDA c1 :
    Try(compile_block([c1 EXCEPT !.current_locals = insert_params(@, func.params, 0)],
                      func.body), LAMBDA c3 :
    register_function(close_body(c3, func), func, c.code, c.current_locals)))

compile_function(c, func) ==
    Let(add_const([c EXCEPT !.code = <<>>, !.current_locals = EmptyMap],
                  ConstString(as_bytes(func.name))).c, LAMBDA c1 :
    Try(compile_block([c1 EXCEPT !.current_locals = insert_params(@, func.params, 0)],
                      func.body), LAMBDA c3 :
    register_function(close_body(c3, func), func, c.code, c.current_locals)))

-----------------------------------------------------------------------------
(* compile(): the layout of the code section and the artifact *)

RECURSIVE link(_, _, _, _)
\* for (i, func_code) in function_code_parts.into_iter().enumerate() (compiler.rs:27-33)
link(c, parts, i, main_code_size) ==
    IF i > Len(parts) THEN c
    ELSE link([c EXCEPT !.functions[i].code_offset = main_code_size,
                        !.code = @ \o parts[i]],
              parts, i + 1, main_code_size + Len(parts[i]))

\* a main block left without its final HALT
emit_nothing(c) == c

\* compiler.rs:21: the HALT that ends main
emit_halt(c) == emit_op(c, 1)

\* a layout that numbers the positions of the functions from 0
finish_offsets_from_zero(c, parts) ==
    LET c1 == emit_halt(c) IN link(c1, parts, 1, 0)

\* compiler.rs:21-33
finish(c, parts) ==
    LET c1 == emit_halt(c) IN link(c1, parts, 1, Len(c1.code))

RECURSIVE Flatten(_)
Flatten(seqs) == IF seqs = <<>> THEN <<>> ELSE Head(seqs) \o Flatten(Tail(seqs))

write_constant(constant) ==
    IF constant.tag = "Number" THEN <<1>> \o f64_to_le_bytes(constant.n)
    ELSE <<2>> \o u32_to_le_bytes(Len(constant.s)) \o constant.s

\* self.constants.iter().position(|c| matches String(s) if s == name_bytes).unwrap()
name_const_idx(c, func) ==
    LET hit == {i \in 1..Len(c.constants) :
                    c.constants[i].tag = "String" /\ c.constants[i].s = as_bytes(func.name)}
    IN  (CHOOSE i \in hit : \A j \in hit : i <= j) - 1

\* an entry that writes local_count before arity
write_function_swapped(c, func) ==
    u32_to_le_bytes(name_const_idx(c, func)) \o u16_to_le_bytes(func.local_count)
        \o u16_to_le_bytes(func.arity) \o u32_to_le_bytes(func.code_offset)

write_function(c, func) ==
    u32_to_le_bytes(name_const_idx(c, func)) \o u16_to_le_bytes(func.arity)
        \o u16_to_le_bytes(func.local_count) \o u32_to_le_bytes(func.code_offset)

Magic == <<66, 82, 66, 67>>

write_bytecode(c) ==
    Magic \o u16_to_le_bytes(4) \o u16_to_le_bytes(0)
      \o u32_to_le_bytes(Len(c.constants))
      \o Flatten([i \in 1..Len(c.constants) |-> write_constant(c.constants[i])])
      \o u32_to_le_bytes(Len(c.functions))
      \o Flatten([i \in 1..Len(c.functions) |-> write_function(c, c.functions[i])])
      \o u32_to_le_bytes(Len(c.code))
      \o c.code

-----------------------------------------------------------------------------
(* Values (value.rs) *)

NumberValue(n) == [t |-> "Number", n |-> n]
StringValue(s) == [t |-> "String", s |-> s]
\* an f64 that is not an integer of the model, kept as its bit pattern
BitsValue(b) == [t |-> "Bits", bits |-> b]

IsNumeric(v) == v.t \in {"Number", "Bits"}

\* vm.rs:31-36; among the bit patterns only +0.0 and -0.0 equal 0.0
is_truthy(v) ==
    CASE v.t = "Number" -> v.n # 0
      [] v.t = "Bits" -> v.bits # <<0, 0, 0, 0, 0, 0, 0, 128>>
      [] v.t = "String" -> v.s # <<>>

RECURSIVE Digits(_)
Digits(n) == IF n < 10 THEN <<48 + n>> ELSE Digits(n \div 10) \o <<48 + (n % 10)>>

\* format!("{}", n) of an integral f64: no decimal point
format_number(n) == IF n < 0 THEN <<45>> \o Digits(0 - n) ELSE Digits(n)

\* value.rs:45-50, for the values of the model
format_for_print(v) == IF v.t = "String" THEN v.s ELSE format_number(v.n)

Ok(v) == [ok |-> TRUE, v |-> v, err |-> "", capped |-> FALSE]
Err(msg) == [ok |-> FALSE, v |-> NumberValue(0), err |-> msg, capped |-> FALSE]
OutOfModel == [ok |-> FALSE, v |-> NumberValue(0), err |-> "", capped |-> TRUE]

InRange(n) == n >= 0 - MaxInt /\ n <= MaxInt
Num(n) == IF InRange(n) THEN Ok(NumberValue(n)) ELSE OutOfModel

Abs(n) == IF n < 0 THEN 0 - n ELSE n

\* an addition that takes numbers only
value_add_strict(a, b) ==
    IF IsNumeric(a) /\ IsNumeric(b)
    THEN IF a.t = "Bits" \/ b.t = "Bits" THEN OutOfModel ELSE Num(a.n + b.n)
    ELSE Err("addition requires both operands to be numbers")

\* value.rs:10-16
value_add(a, b) ==
    IF a.t = "Bits" \/ b.t = "Bits" THEN OutOfModel
    ELSE IF a.t = "String" THEN Ok(StringValue(a.s \o format_for_print(b)))
    ELSE IF b.t = "String" THEN Ok(StringValue(format_for_print(a) \o b.s))
    ELSE Num(a.n + b.n)

\* value.rs:18-23
value_sub(a, b) ==
    IF IsNumeric(a) /\ IsNumeric(b)
    THEN IF a.t = "Bits" \/ b.t = "Bits" THEN OutOfModel ELSE Num(a.n - b.n)
    ELSE Err("subtraction requires both operands to be numbers")

\* value.rs:25-30
value_mul(a, b) ==
    IF IsNumeric(a) /\ IsNumeric(b)
    THEN IF a.t = "Bits" \/ b.t = "Bits" THEN OutOfModel ELSE Num(a.n * b.n)
    ELSE Err("multiplication requires both operands to be numbers")

\* a division that looks at the divisor before it looks at the types
value_div_zero_first(a, b) ==
    IF b.t = "Number" /\ b.n = 0 THEN Err("division by zero")
    ELSE IF IsNumeric(a) /\ IsNumeric(b)
    THEN IF a.t = "Bits" \/ b.t = "Bits" THEN OutOfModel
         ELSE IF Abs(a.n) % Abs(b.n) # 0 THEN OutOfModel
         ELSE LET q == Abs(a.n) \div Abs(b.n) IN
              Num(IF (a.n < 0) = (b.n < 0) THEN q ELSE 0 - q)
    ELSE Err("division requires both operands to be numbers")

\* value.rs:32-43; a quotient that is not an integer leaves the model
value_div(a, b) ==
    IF IsNumeric(a) /\ IsNumeric(b)
    THEN IF b.t = "Number" /\ b.n = 0 THEN Err("division by zero")
         ELSE IF b.t = "Bits" /\ ~is_truthy(b) THEN Err("division by zero")
         ELSE IF a.t = "Bits" \/ b.t = "Bits" THEN OutOfModel
         ELSE IF Abs(a.n) % Abs(b.n) # 0 THEN OutOfModel
         ELSE LET q == Abs(a.n) \div Abs(b.n) IN
              Num(IF (a.n < 0) = (b.n < 0) THEN q ELSE 0 - q)
    ELSE Err("division requires both operands to be numbers")

-----------------------------------------------------------------------------
(* The virtual machine (vm.rs): load *)

None == <<>>
Some(v) == <<v>>

\* VM::new; status is the lifecycle of execute (vm.rs:25-29), error the RuntimeError
VMNew ==
    [ status |-> "Uninitialized", error |-> "",
      constants |-> <<>>, globals |-> [i \in 1..7 |-> None], stack |-> <<>>,
      call_stack |-> <<>>, functions |-> <<>>, code |-> <<>>, ip |-> 0 ]

Faulted(m, msg) == [m EXCEPT !.status = "Faulted", !.error = msg]
\* an index out of range or an unwrap of None: the process aborts
Panicked(m, msg) == [m EXCEPT !.status = "Panicked", !.error = msg]

\* bytecode[pos..pos+n]
Slice(bytes, pos, n) == SubSeq(bytes, pos + 1, pos + n)

Continuation(b) == b >= 128 /\ b <= 191

RECURSIVE Utf8Valid(_)
\* String::from_utf8(bytes).is_ok()
Utf8Valid(b) ==
    IF b = <<>> THEN TRUE
    ELSE LET b1 == b[1]
             n == Len(b)
         IN  IF b1 < 128 THEN Utf8Valid(Tail(b))
             ELSE IF b1 >= 194 /\ b1 <= 223
             THEN n >= 2 /\ Continuation(b[2]) /\ Utf8Valid(SubSeq(b, 3, n))
             ELSE IF b1 >= 224 /\ b1 <= 239
             THEN /\ n >= 3 /\ Continuation(b[2]) /\ Continuation(b[3])
                  /\ (b1 = 224 => b[2] >= 160)
                  /\ (b1 = 237 => b[2] <= 159)
                  /\ Utf8Valid(SubSeq(b, 4, n))
             ELSE IF b1 >= 240 /\ b1 <= 244
             THEN /\ n >= 4 /\ Continuation(b[2]) /\ Continuation(b[3]) /\ Continuation(b[4])
                  /\ (b1 = 240 => b[2] >= 144)
                  /\ (b1 = 244 => b[2] <= 143)
                  /\ Utf8Valid(SubSeq(b, 5, n))
             ELSE FALSE

number_constant(b) ==
    IF f64_is_small_int(b) THEN NumberValue(f64_from_le_bytes(b)) ELSE BitsValue(b)

RECURSIVE read_constants(_, _, _, _)
\* for _ in 0..const_count (vm.rs:98-139)
read_constants(bytecode, pos, left, acc) ==
    IF left = 0 THEN [err |-> "", pos |-> pos, constants |-> acc]
    ELSE IF Len(bytecode) <= pos
    THEN [err |-> "invalid constant entry", pos |-> pos, constants |-> acc]
    ELSE LET tag == bytecode[pos + 1]
             p == pos + 1
         IN  IF tag = 1
             THEN IF Len(bytecode) < p + 8
                  THEN [err |-> "invalid number constant", pos |-> p, constants |-> acc]
                  ELSE read_constants(bytecode, p + 8, left - 1,
                            Append(acc, number_constant(Slice(bytecode, p, 8))))
             ELSE IF tag = 2
             THEN IF Len(bytecode) < p + 4
                  THEN [err |-> "invalid string constant", pos |-> p, constants |-> acc]
                  ELSE LET len == u32_from_le_bytes(Slice(bytecode, p, 4))
                           q == p + 4
                       IN  IF Len(bytecode) - q < len
                           THEN [err |-> "invalid string data", pos |-> q, constants |-> acc]
                           ELSE IF ~Utf8Valid(Slice(bytecode, q, len))
                           THEN [err |-> "invalid UTF-8 in string constant",
                                 pos |-> q, constants |-> acc]
                           ELSE read_constants(bytecode, q + len, left - 1,
                                    Append(acc, StringValue(Slice(bytecode, q, len))))
             ELSE [err |-> "unknown constant type", pos |-> p, constants |-> acc]

FunctionMetadata(arity, local_count, code_offset) ==
    [arity |-> arity, local_count |-> local_count, code_offset |-> code_offset]

RECURSIVE read_functions(_, _, _, _, _)
\* for _ in 0..func_count (vm.rs:151-175)
read_functions(bytecode, pos, left, acc, constants) ==
    IF left = 0 THEN [err |-> "", panic |-> FALSE, pos |-> pos, functions |-> acc]
    ELSE IF Len(bytecode) < pos + 14
    THEN [err |-> "invalid function entry", panic |-> FALSE, pos |-> pos, functions |-> acc]
    ELSE LET idx == u32_from_le_bytes(Slice(bytecode, pos, 4))
             arity == u16_from_le_bytes(Slice(bytecode, pos + 4, 2))
             local_count == u16_from_le_bytes(Slice(bytecode, pos + 6, 2))
             code_offset == u32_from_le_bytes(Slice(bytecode, pos + 8, 4))
         IN  IF idx >= Len(constants)
             THEN [err |-> "index out of bounds", panic |-> TRUE, pos |-> pos, functions |-> acc]
             ELSE read_functions(bytecode, pos + 12, left - 1,
                      Append(acc, FunctionMetadata(arity, local_count, code_offset)), constants)

\* the code section (vm.rs:178-193)
load_code(m, bytecode, pos) ==
    IF Len(bytecode) < pos + 4 THEN Faulted(m, "invalid code section header")
    ELSE LET code_size == u32_from_le_bytes(Slice(bytecode, pos, 4)) IN
         IF Len(bytecode) - (pos + 4) < code_size THEN Faulted(m, "invalid code data")
         ELSE [m EXCEPT !.code = Slice(bytecode, pos + 4, code_size), !.ip = 0,
                        !.status = "Loaded"]

\* the function table read whatever the version
load_functions_any_version(m, bytecode, pos, version) ==
    IF Len(bytecode) < pos + 4 THEN Faulted(m, "invalid function table header")
    ELSE LET func_count == u32_from_le_bytes(Slice(bytecode, pos, 4))
             r == read_functions(bytecode, pos + 4, func_count, <<>>, m.constants)
             m1 == [m EXCEPT !.functions = r.functions]
         IN  IF r.panic THEN Panicked(m1, r.err)
             ELSE IF r.err # "" THEN Faulted(m1, r.err)
             ELSE load_code(m1, bytecode, r.pos)

\* the function table (vm.rs:141-176)
load_functions(m, bytecode, pos, version) ==
    IF version < 4 THEN load_code(m, bytecode, pos)
    ELSE IF Len(bytecode) < pos + 4 THEN Faulted(m, "invalid function table header")
    ELSE LET func_count == u32_from_le_bytes(Slice(bytecode, pos, 4))
             r == read_functions(bytecode, pos + 4, func_count, <<>>, m.constants)
             m1 == [m EXCEPT !.functions = r.functions]
         IN  IF r.panic THEN Panicked(m1, r.err)
             ELSE IF r.err # "" THEN Faulted(m1, r.err)
             ELSE load_code(m1, bytecode, r.pos)

\* VM::load
load(m, bytecode) ==
    IF Len(bytecode) < 4 \/ Slice(bytecode, 0, 4) # Magic
    THEN Faulted(m, "invalid bytecode file")
    ELSE IF Len(bytecode) < 8 THEN Faulted(m, "invalid bytecode header")
    ELSE IF Len(bytecode) < 12 THEN Faulted(m, "invalid constant pool header")
    ELSE LET version == u16_from_le_bytes(Slice(bytecode, 4, 2))
             const_count == u32_from_le_bytes(Slice(bytecode, 8, 4))
             r == read_constants(bytecode, 12, const_count, <<>>)
             m1 == [m EXCEPT !.constants = r.constants]
         IN  IF r.err # "" THEN Faulted(m1, r.err)
             ELSE load_functions(m1, bytecode, r.pos, version)

-----------------------------------------------------------------------------
(* The virtual machine (vm.rs): the opcodes *)

CallStackLimit == 256

\* the outcome of one opcode: the machine, the line it printed (or none), and
\* whether the result lies outside the values the model follows
Res(m) == [m |-> m, printed |-> <<>>, capped |-> FALSE]
Beyond(m) == [m |-> m, printed |-> <<>>, capped |-> TRUE]

Top(m) == m.stack[Len(m.stack)]
Pop(m) == [m EXCEPT !.stack = SubSeq(@, 1, Len(@) - 1)]
Push(m, v) == [m EXCEPT !.stack = Append(@, v)]

read_u8(m) ==
    IF m.ip >= Len(m.code) THEN [val |-> 0, m |-> m]
    ELSE [val |-> m.code[m.ip + 1], m |-> [m EXCEPT !.ip = @ + 1]]

read_u16(m) ==
    IF m.ip + 2 > Len(m.code) THEN [val |-> 0, m |-> m]
    ELSE [val |-> u16_from_le_bytes(Slice(m.code, m.ip, 2)), m |-> [m EXCEPT !.ip = @ + 2]]

read_u32(m) ==
    IF m.ip + 4 > Len(m.code) THEN [val |-> 0, m |-> m]
    ELSE [val |-> u32_from_le_bytes(Slice(m.code, m.ip, 4)), m |-> [m EXCEPT !.ip = @ + 4]]

op_load_const(m) ==
    LET r == read_u32(m) IN
    IF r.val >= Len(r.m.constants) THEN Res(Faulted(r.m, "constant index out of bounds"))
    ELSE Res(Push(r.m, r.m.constants[r.val + 1]))

\* a LOAD_GLOBAL that reads an unset slot as 0.0
op_load_global_default(m) ==
    LET r == read_u8(m) IN
    IF r.val >= 7 THEN Res(Faulted(r.m, "global index out of bounds"))
    ELSE IF r.m.globals[r.val + 1] = None THEN Res(Push(r.m, NumberValue(0)))
    ELSE Res(Push(r.m, r.m.globals[r.val + 1][1]))

op_load_global(m) ==
    LET r == read_u8(m) IN
    IF r.val >= 7 THEN Res(Faulted(r.m, "global index out of bounds"))
    ELSE IF r.m.globals[r.val + 1] = None THEN Res(Faulted(r.m, "unset braincell"))
    ELSE Res(Push(r.m, r.m.globals[r.val + 1][1]))

\* a store that gives the slot what the pop gave, also when it gave nothing
op_store_global_popped(m) ==
    LET r == read_u8(m) IN
    IF r.val >= 7 THEN Res(Faulted(r.m, "global index out of bounds"))
    ELSE IF r.m.stack = <<>>
    THEN Res(Faulted([r.m EXCEPT !.globals[r.val + 1] = None], "stack underflow"))
    ELSE Res([Pop(r.m) EXCEPT !.globals[r.val + 1] = Some(Top(r.m))])

op_store_global(m) ==
    LET r == read_u8(m) IN
    IF r.val >= 7 THEN Res(Faulted(r.m, "global index out of bounds"))
    ELSE IF r.m.stack = <<>> THEN Res(Faulted(r.m, "stack underflow"))
    ELSE Res([Pop(r.m) EXCEPT !.globals[r.val + 1] = Some(Top(r.m))])

\* op_add, op_sub, op_mul, op_div: pop right, pop left, push the result
arith(m, result) ==
    IF result.capped THEN Beyond(m)
    ELSE IF ~result.ok THEN Res(Faulted(Pop(Pop(m)), result.err))
    ELSE Res(Push(Pop(Pop(m)), result.v))

Underflow2(m) ==
    Res(Faulted([m EXCEPT !.stack = <<>>], "stack underflow"))

op_add(m) ==
    IF Len(m.stack) < 2 THEN Underflow2(m)
    ELSE arith(m, value_add(m.stack[Len(m.stack) - 1], Top(m)))

op_sub(m) ==
    IF Len(m.stack) < 2 THEN Underflow2(m)
    ELSE arith(m, value_sub(m.stack[Len(m.stack) - 1], Top(m)))

op_mul(m) ==
    IF Len(m.stack) < 2 THEN Underflow2(m)
    ELSE arith(m, value_mul(m.stack[Len(m.stack) - 1], Top(m)))

op_div(m) ==
    IF Len(m.stack) < 2 THEN Underflow2(m)
    ELSE arith(m, value_div(m.stack[Len(m.stack) - 1], Top(m)))

op_print(m) ==
    IF m.stack = <<>> THEN Res(Faulted(m, "stack underflow"))
    ELSE IF Top(m).t = "Bits" THEN Beyond(m)
    ELSE [m |-> Pop(m), printed |-> <<format_for_print(Top(m))>>, capped |-> FALSE]

Whitespace(b) == b \in {9, 10, 11, 12, 13, 32}

RECURSIVE trim_end(_)
\* str::trim_end, on the ASCII white space
trim_end(s) ==
    IF s # <<>> /\ Whitespace(s[Len(s)]) THEN trim_end(SubSeq(s, 1, Len(s) - 1)) ELSE s

\* rd is what read_line gave: the line with its line ending, or a failure
op_input(m, rd) ==
    IF ~rd.ok THEN Res(Faulted(m, "failed to read from stdin"))
    ELSE Res(Push(m, StringValue(trim_end(rd.line))))

\* a JUMP that sets the IP without the check of vm.rs:322
op_jump_unchecked(m) ==
    LET r == read_u32(m) IN Res([r.m EXCEPT !.ip = r.val])

op_jump(m) ==
    LET r == read_u32(m) IN
    IF r.val >= Len(r.m.code) THEN Res(Faulted(r.m, "jump target out of bounds"))
    ELSE Res([r.m EXCEPT !.ip = r.val])

op_jump_if_false(m) ==
    IF m.stack = <<>> THEN Res(Faulted(m, "stack underflow"))
    ELSE LET value == Top(m)
             r == read_u32(Pop(m))
         IN  IF ~is_truthy(value)
             THEN IF r.val >= Len(r.m.code)
                  THEN Res(Faulted(r.m, "jump target out of bounds"))
                  ELSE Res([r.m EXCEPT !.ip = r.val])
             ELSE Res(r.m)

IsDigit(b) == b >= 48 /\ b <= 57

RECURSIVE DigitsValue(_)
DigitsValue(s) ==
    IF s = <<>> THEN 0 ELSE DigitsValue(SubSeq(s, 1, Len(s) - 1)) * 10 + (s[Len(s)] - 48)

Lower(b) == IF b >= 65 /\ b <= 90 THEN b + 32 ELSE b

\* digits with at most one point and at least one digit
DecimalMantissa(s) ==
    /\ \A i \in 1..Len(s) : IsDigit(s[i]) \/ s[i] = 46
    /\ Cardinality({i \in 1..Len(s) : s[i] = 46}) <= 1
    /\ \E i \in 1..Len(s) : IsDigit(s[i])

\* an optional sign and at least one digit
DecimalExponent(s) ==
    LET d == IF s # <<>> /\ s[1] \in {43, 45} THEN Tail(s) ELSE s IN
    d # <<>> /\ \A i \in 1..Len(d) : IsDigit(d[i])

\* the strings str::parse::<f64> accepts: [+-] then inf, infinity, nan in any
\* case, or a decimal mantissa with an optional exponent
FloatSyntax(s) ==
    LET body == IF s # <<>> /\ s[1] \in {43, 45} THEN Tail(s) ELSE s
        low == [i \in 1..Len(body) |-> Lower(body[i])]
        es == {i \in 1..Len(body) : body[i] \in {69, 101}}
    IN  \/ low \in { <<105, 110, 102>>, <<110, 97, 110>>,
                     <<105, 110, 102, 105, 110, 105, 116, 121>> }
        \/ /\ es = {}
           /\ DecimalMantissa(body)
        \/ /\ es # {}
           /\ LET i == CHOOSE i \in es : \A j \in es : i <= j IN
              /\ DecimalMantissa(SubSeq(body, 1, i - 1))
              /\ DecimalExponent(SubSeq(body, i + 1, Len(body)))

\* s.parse::<f64>(): a rejected string is an error; up to four decimal digits
\* give their value; the other floats leave the model
parse_f64(s) ==
    IF ~FloatSyntax(s) THEN Err("TRANSFORM: invalid number string")
    ELSE IF Len(s) <= 4 /\ \A i \in 1..Len(s) : IsDigit(s[i]) THEN Num(DigitsValue(s))
    ELSE OutOfModel

\* s.chars().count(): the bytes that start a scalar value
chars_count(s) == Cardinality({i \in 1..Len(s) : ~Continuation(s[i])})

op_transform(m) ==
    IF m.stack = <<>> THEN Res(Faulted(m, "stack underflow"))
    ELSE IF Top(m).t # "String"
    THEN Res(Faulted(Pop(m), "TRANSFORM: expected string argument"))
    ELSE LET r == parse_f64(Top(m).s) IN
         IF r.capped THEN Beyond(m)
         ELSE IF ~r.ok THEN Res(Faulted(Pop(m), r.err))
         ELSE Res(Push(Pop(m), r.v))

\* RIZZED that counts bytes
op_rizzed_bytes(m) ==
    IF m.stack = <<>> THEN Res(Faulted(m, "stack underflow"))
    ELSE IF Top(m).t # "String"
    THEN Res(Faulted(Pop(m), "RIZZED: expected string argument"))
    ELSE Res(Push(Pop(m), NumberValue(Len(Top(m).s))))

op_rizzed(m) ==
    IF m.stack = <<>> THEN Res(Faulted(m, "stack underflow"))
    ELSE IF Top(m).t # "String"
    THEN Res(Faulted(Pop(m), "RIZZED: expected string argument"))
    ELSE Res(Push(Pop(m), NumberValue(chars_count(Top(m).s))))

CallFrame(return_address, locals) ==
    [return_address |-> return_address, locals |-> locals]

\* vm.rs:408-437
call_user(m, func_idx) ==
    IF func_idx < 2 \/ func_idx - 2 >= Len(m.functions)
    THEN Res(Faulted(m, "function index out of bounds"))
    ELSE LET func == m.functions[func_idx - 1]
             n == Len(m.stack)
         IN  IF n < func.arity THEN Res(Faulted(m, "not enough arguments on stack"))
             ELSE IF func.arity > func.local_count
             THEN \* frame.locals[i] with i = local_count
                  Res(Panicked(m, "index out of bounds"))
             ELSE LET locals == [j \in 1..func.local_count |->
                                    IF j <= func.arity THEN Some(m.stack[n - j + 1]) ELSE None]
                      frame == CallFrame(m.ip, locals)
                  IN  Res([m EXCEPT !.call_stack = Append(@, frame),
                                    !.stack = SubSeq(@, 1, n - func.arity),
                                    !.ip = func.code_offset])

\* a CALL without the depth check of vm.rs:378
op_hitmeup_unlimited(m) ==
    LET r == read_u32(m) IN
    IF r.val = 0 THEN op_transform(r.m)
    ELSE IF r.val = 1 THEN op_rizzed(r.m)
    ELSE call_user(r.m, r.val)

op_hitmeup(m) ==
    LET r == read_u32(m) IN
    IF Len(r.m.call_stack) >= CallStackLimit THEN Res(Faulted(r.m, "call stack overflow"))
    ELSE IF r.val = 0 THEN op_transform(r.m)
    ELSE IF r.val = 1 THEN op_rizzed(r.m)
    ELSE call_user(r.m, r.val)

op_untilwemeetagain(m) ==
    IF m.call_stack = <<>> THEN Res(Faulted(m, "return outside of function"))
    ELSE LET frame == m.call_stack[Len(m.call_stack)]
             m1 == [m EXCEPT !.call_stack = SubSeq(@, 1, Len(@) - 1)]
         IN  IF m1.stack = <<>> THEN Res(Faulted(m1, "stack underflow"))
             ELSE Res([m1 EXCEPT !.ip = frame.return_address])

\* a LOAD_LOCAL that reads the locals of the first frame of the call stack
op_tax_local_first_frame(m) ==
    LET r == read_u16(m) IN
    IF r.m.call_stack = <<>> THEN Res(Faulted(r.m, "local access outside of function"))
    ELSE LET frame == r.m.call_stack[1] IN
         IF r.val >= Len(frame.locals) % 65536
         THEN Res(Faulted(r.m, "local index out of bounds"))
         ELSE IF frame.locals[r.val + 1] = None
         THEN Res(Faulted(r.m, "unset local variable"))
         ELSE Res(Push(r.m, frame.locals[r.val + 1][1]))

op_tax_local(m) ==
    LET r == read_u16(m) IN
    IF r.m.call_stack = <<>> THEN Res(Faulted(r.m, "local access outside of function"))
    ELSE LET frame == r.m.call_stack[Len(r.m.call_stack)] IN
         IF r.val >= Len(frame.locals) % 65536
         THEN Res(Faulted(r.m, "local index out of bounds"))
         ELSE IF frame.locals[r.val + 1] = None
         THEN Res(Faulted(r.m, "unset local variable"))
         ELSE Res(Push(r.m, frame.locals[r.val + 1][1]))

op_bigback_local(m) ==
    LET r == read_u16(m) IN
    IF r.m.call_stack = <<>> THEN Res(Faulted(r.m, "local assignment outside of function"))
    ELSE LET d == Len(r.m.call_stack)
             frame == r.m.call_stack[d]
         IN  IF r.val >= Len(frame.locals) % 65536
             THEN Res(Faulted(r.m, "local index out of bounds"))
             ELSE IF r.m.stack = <<>> THEN Res(Faulted(r.m, "stack underflow"))
             ELSE Res([Pop(r.m) EXCEPT !.call_stack[d].locals[r.val + 1] = Some(Top(r.m))])

op_poopy(m) ==
    IF m.stack = <<>> THEN Res(Faulted(m, "stack underflow")) ELSE Res(Pop(m))

Halted(m) == [m EXCEPT !.status = "Halted"]

\* one iteration of the loop of VM::run (vm.rs:197-222); leaving the loop is a step too
step(m0, rd) ==
    IF m0.ip >= Len(m0.code) THEN Res(Halted(m0))
    ELSE LET op == m0.code[m0.ip + 1]
             m == [m0 EXCEPT !.ip = @ + 1, !.status = "Running"]
         IN  CASE op = 1 -> Res(Halted(m))
               [] op = 2 -> op_load_const(m)
               [] op = 3 -> op_load_global(m)
               [] op = 4 -> op_store_global(m)
               [] op = 5 -> op_add(m)
               [] op = 6 -> op_sub(m)
               [] op = 7 -> op_mul(m)
               [] op = 8 -> op_div(m)
               [] op = 9 -> op_print(m)
               [] op = 10 -> op_input(m, rd)
               [] op = 11 -> op_jump(m)
               [] op = 12 -> op_jump_if_false(m)
               [] op = 13 -> op_hitmeup(m)
               [] op = 14 -> op_untilwemeetagain(m)
               [] op = 15 -> op_tax_local(m)
               [] op = 16 -> op_bigback_local(m)
               [] op = 17 -> op_poopy(m)
               [] op = 18 -> Res(Halted(m))
               [] OTHER -> Res(Faulted(m, "unknown opcode"))

-----------------------------------------------------------------------------
(* The lexer (lexer.rs): a source is its sequence of chars (scalar values) *)

\* Token (lexer.rs:4-40): the kind is the discriminant
Token(kind) == [kind |-> kind]
Braincell(idx) == [kind |-> "Braincell", idx |-> idx]
NumberToken(n) == [kind |-> "Number", n |-> n]
StringToken(s) == [kind |-> "String", s |-> s]
Eof == Token("Eof")

\* the chars of the string literals of the lexer
chars(word) ==
    CASE word = "LOCK" -> <<76, 79, 67, 75>>
      [] word = "IN" -> <<73, 78>>
      [] word = "ITS" -> <<73, 84, 83>>
      [] word = "OVER" -> <<79, 86, 69, 82>>
      [] word = "FANUMTAX" -> <<70, 65, 78, 85, 77, 84, 65, 88>>
      [] word = "FR" -> <<70, 82>>
      [] word = "SAY" -> <<83, 65, 89>>
      [] word = "TOUCHY" -> <<84, 79, 85, 67, 72, 89>>
      [] word = "ONGOD" -> <<79, 78, 71, 79, 68>>
      [] word = "NO" -> <<78, 79>>
      [] word = "CAP" -> <<67, 65, 80>>
      [] word = "DEADASS" -> <<68, 69, 65, 68, 65, 83, 83>>
      [] word = "SKIBIDI" -> <<83, 75, 73, 66, 73, 68, 73>>
      [] word = "RIZZUP" -> <<82, 73, 90, 90, 85, 80>>
      [] word = "aura" -> <<97, 117, 114, 97>>
      [] word = "peak" -> <<112, 101, 97, 107>>
      [] word = "goon" -> <<103, 111, 111, 110>>
      [] word = "mog" -> <<109, 111, 103>>
      [] word = "npc" -> <<110, 112, 99>>
      [] word = "sigma" -> <<115, 105, 103, 109, 97>>
      [] word = "gyatt" -> <<103, 121, 97, 116, 116>>

\* the arms of the match of read_identifier (lexer.rs:256-272)
KeywordArms ==
    << <<"LOCK", "Lock">>, <<"IN", "In">>, <<"ITS", "Its">>, <<"OVER", "Over">>,
       <<"FANUMTAX", "Fanumtax">>, <<"FR", "Fr">>, <<"SAY", "Say">>, <<"TOUCHY", "Touchy">>,
       <<"ONGOD", "Ongod">>, <<"NO", "No">>, <<"CAP", "Cap">>, <<"DEADASS", "Deadass">>,
       <<"SKIBIDI", "Skibidi">>, <<"RIZZUP", "Rizzup">> >>

BRAINCELLS ==
    << <<"aura", 0>>, <<"peak", 1>>, <<"goon", 2>>, <<"mog", 3>>, <<"npc", 4>>,
       <<"sigma", 5>>, <<"gyatt", 6>> >>

LexerNew(cs) == [chars |-> cs, position |-> 0, line |-> 1, col |-> 1]

AtEnd(lx) == lx.position >= Len(lx.chars)

current_char(lx) == lx.chars[lx.position + 1]

lexer_advance(lx) ==
    IF AtEnd(lx) THEN [lx EXCEPT !.position = @ + 1]
    ELSE IF current_char(lx) = 10
    THEN [lx EXCEPT !.position = @ + 1, !.line = @ + 1, !.col = 1]
    ELSE [lx EXCEPT !.position = @ + 1, !.col = @ + 1]

\* char::is_whitespace: the White_Space property
is_whitespace(ch) ==
    \/ ch \in 9..13 \/ ch = 32 \/ ch = 133 \/ ch = 160 \/ ch = 5760
    \/ ch \in 8192..8202 \/ ch \in {8232, 8233, 8239, 8287, 12288}

is_ascii_digit(ch) == ch \in 48..57

is_ascii_alphabetic(ch) == ch \in 65..90 \/ ch \in 97..122

RECURSIVE skip_whitespace(_)
skip_whitespace(lx) ==
    IF ~AtEnd(lx) /\ is_whitespace(current_char(lx)) THEN skip_whitespace(lexer_advance(lx))
    ELSE lx

RECURSIVE skip_line(_)
skip_line(lx) ==
    IF AtEnd(lx) THEN lx
    ELSE IF current_char(lx) = 10 THEN lexer_advance(lx)
    ELSE skip_line(lexer_advance(lx))

\* Ok(token) and Err(CompileError) of the lexer in its state lx
Lexed(lx, tok) == [lx |-> lx, err |-> "", tok |-> tok]
LexError(lx, msg) == [lx |-> lx, err |-> msg, tok |-> Eof]

RECURSIVE read_string_loop(_, _)
\* the loop of read_string (lexer.rs:162-196), result the string so far
read_string_loop(lx, result) ==
    IF AtEnd(lx) \/ current_char(lx) = 34 THEN Lexed(lx, StringToken(result))
    ELSE IF current_char(lx) = 92
    THEN Let(lexer_advance(lx), LAMBDA l1 :
         IF AtEnd(l1) THEN LexError(l1, "unexpected end of string")
         ELSE IF current_char(l1) = 110
         THEN read_string_loop(lexer_advance(l1), Append(result, 10))
         ELSE IF current_char(l1) = 116
         THEN read_string_loop(lexer_advance(l1), Append(result, 9))
         ELSE IF current_char(l1) \in {34, 92}
         THEN read_string_loop(lexer_advance(l1), Append(result, current_char(l1)))
         ELSE LexError(l1, "unknown escape sequence"))
    ELSE read_string_loop(lexer_advance(lx), Append(result, current_char(lx)))

read_string(lx) ==
    Try(read_string_loop(lexer_advance(lx), <<>>), LAMBDA r :
        IF AtEnd(r.lx) THEN LexError(r.lx, "unterminated string")
        ELSE Lexed(lexer_advance(r.lx), r.tok))

RECURSIVE read_digits(_, _)
\* while the char is an ASCII digit, push it (lexer.rs:214-221 and 228-235)
read_digits(lx, num_str) ==
    IF ~AtEnd(lx) /\ is_ascii_digit(current_char(lx))
    THEN read_digits(lexer_advance(lx), Append(num_str, current_char(lx)))
    ELSE [lx |-> lx, num_str |-> num_str]

RECURSIVE StripZeros(_)
StripZeros(s) ==
    IF s # <<>> /\ s[Len(s)] = 48 THEN StripZeros(SubSeq(s, 1, Len(s) - 1)) ELSE s

\* num_str.parse::<f64>().unwrap() of digits with an optional point and digits:
\* the integer, or the decimal that is not one
decimal_value(whole, fraction) ==
    IF StripZeros(fraction) = <<>> THEN DigitsValue(whole)
    ELSE [whole |-> DigitsValue(whole), fraction |-> StripZeros(fraction)]

read_number(lx) ==
    Let(read_digits(lx, <<>>), LAMBDA w :
        IF ~AtEnd(w.lx) /\ current_char(w.lx) = 46
        THEN Let(read_digits(lexer_advance(w.lx), <<>>), LAMBDA f :
                 Lexed(f.lx, NumberToken(decimal_value(w.num_str, f.num_str))))
        ELSE Lexed(w.lx, NumberToken(decimal_value(w.num_str, <<>>))))

RECURSIVE read_letters(_, _)
\* the loop of read_identifier (lexer.rs:246-253)
read_letters(lx, ident) ==
    IF ~AtEnd(lx) /\ is_ascii_alphabetic(current_char(lx))
    THEN read_letters(lexer_advance(lx), Append(ident, current_char(lx)))
    ELSE [lx |-> lx, ident |-> ident]

\* the first pair of a table whose spelling is ident, if any
Arm(table, ident) ==
    LET hit == {i \in 1..Len(table) : chars(table[i][1]) = ident} IN
    IF hit = {} THEN None ELSE Some(table[CHOOSE i \in hit : \A j \in hit : i <= j][2])

identifier_token(lx, ident) ==
    IF Arm(KeywordArms, ident) # None THEN Lexed(lx, Token(Arm(KeywordArms, ident)[1]))
    ELSE IF Arm(BRAINCELLS, ident) # None THEN Lexed(lx, Braincell(Arm(BRAINCELLS, ident)[1]))
    ELSE LexError(lx, "unknown identifier")

read_identifier(lx) ==
    Let(read_letters(lx, <<>>), LAMBDA r : identifier_token(r.lx, r.ident))

RECURSIVE next_token(_)
next_token(lx0) ==
    Let(skip_whitespace(lx0), LAMBDA lx :
        IF AtEnd(lx) THEN Lexed(lx, Eof)
        ELSE Let(current_char(lx), LAMBDA ch :
            CASE ch = 128405 -> next_token(skip_line(lx))
              [] ch = 128128 -> Lexed(lexer_advance(lx), Token("Add"))
              [] ch = 128557 -> Lexed(lexer_advance(lx), Token("Subtract"))
              [] ch = 128527 -> Lexed(lexer_advance(lx), Token("Multiply"))
              [] ch = 128673 -> Lexed(lexer_advance(lx), Token("Divide"))
              [] ch = 34 -> read_string(lx)
              [] ch = 40 -> Lexed(lexer_advance(lx), Token("LParen"))
              [] ch = 41 -> Lexed(lexer_advance(lx), Token("RParen"))
              [] is_ascii_digit(ch) -> read_number(lx)
              [] is_ascii_alphabetic(ch) -> read_identifier(lx)
              [] OTHER -> LexError(lx, "unexpected character")))

\* Result<Vec<Token>, CompileError>: the error with the line and column of the lexer
TokensOk(ts) == [ok |-> TRUE, err |-> "", line |-> 0, col |-> 0, tokens |-> ts]
TokensErr(msg, line, col) == [ok |-> FALSE, err |-> msg, line |-> line, col |-> col, tokens |-> <<>>]
NoTokens == [ok |-> FALSE, err |-> "", line |-> 0, col |-> 0, tokens |-> <<>>]

RECURSIVE tokenize_loop(_, _)
\* the loop of tokenize (lexer.rs:69-76)
tokenize_loop(lx, acc) ==
    Let(next_token(lx), LAMBDA r :
        IF r.err # "" THEN TokensErr(r.err, r.lx.line, r.lx.col)
        ELSE IF r.tok.kind = "Eof" THEN TokensOk(Append(acc, r.tok))
        ELSE tokenize_loop(r.lx, Append(acc, r.tok)))

tokenize(input) == tokenize_loop(LexerNew(input), <<>>)

-----------------------------------------------------------------------------
(* The parser (parser.rs) *)

\* the tokens the parser matches that carry a name, and the comma
Identifier(name) == [kind |-> "Identifier", name |-> name]
Comma == Token("Comma")

ParserNew(ts) == [tokens |-> ts, position |-> 0]

\* self.tokens.get(self.position)
current_token(ps) ==
    IF ps.position < Len(ps.tokens) THEN Some(ps.tokens[ps.position + 1]) ELSE None

\* the discriminant of the current token is the one expected
check(ps, kind) == current_token(ps) # None /\ current_token(ps)[1].kind = kind

parser_advance(ps) ==
    IF ps.position < Len(ps.tokens) THEN [ps EXCEPT !.position = @ + 1] ELSE ps

\* Result<T, CompileError> of the parser in its state ps; get_line and get_col
\* are 1 (parser.rs:571-577)
Parsed(ps, v) == [ps |-> ps, err |-> "", v |-> v]
ParseError(ps, msg) == [ps |-> ps, err |-> msg, v |-> <<>>]

\* consume: v tells whether the token was there
consume(ps, kind) ==
    IF check(ps, kind) THEN Parsed(parser_advance(ps), TRUE) ELSE Parsed(ps, FALSE)

\* consume or fail: if !self.consume(kind)? { return Err(msg) }
expect(ps, kind, msg) ==
    IF check(ps, kind) THEN Parsed(parser_advance(ps), TRUE) ELSE ParseError(ps, msg)

\* current_binary_op with one precedence for the four operators
current_binary_op_one_level(ps) ==
    CASE check(ps, "Add") -> Some([op |-> "Add", precedence |-> 1])
      [] check(ps, "Subtract") -> Some([op |-> "Subtract", precedence |-> 1])
      [] check(ps, "Multiply") -> Some([op |-> "Multiply", precedence |-> 1])
      [] check(ps, "Divide") -> Some([op |-> "Divide", precedence |-> 1])
      [] OTHER -> None

current_binary_op(ps) ==
    CASE check(ps, "Add") -> Some([op |-> "Add", precedence |-> 1])
      [] check(ps, "Subtract") -> Some([op |-> "Subtract", precedence |-> 1])
      [] check(ps, "Multiply") -> Some([op |-> "Multiply", precedence |-> 2])
      [] check(ps, "Divide") -> Some([op |-> "Divide", precedence |-> 2])
      [] OTHER -> None

RECURSIVE parse_binary_expression(_, _)
RECURSIVE binary_loop(_, _, _)
RECURSIVE parse_term(_)
RECURSIVE parse_args(_, _)
RECURSIVE parse_statement(_)
RECURSIVE parse_block(_, _, _)

parse_expression(ps) == parse_binary_expression(ps, 0)

\* the loop of parse_binary_expression (parser.rs:372-389)
binary_loop(ps, expr, min_precedence) ==
    Let(current_binary_op(ps), LAMBDA op :
        IF op = None THEN Parsed(ps, expr)
        ELSE IF op[1].precedence < min_precedence THEN Parsed(ps, expr)
        ELSE Try(parse_binary_expression(parser_advance(ps), op[1].precedence + 1),
                 LAMBDA rhs : binary_loop(rhs.ps, Binary(op[1].op, expr, rhs.v),
                                          min_precedence)))

parse_binary_expression(ps, min_precedence) ==
    Try(parse_term(ps), LAMBDA t : binary_loop(t.ps, t.v, min_precedence))

parse_function_call(ps, name) ==
    IF ~check(ps, "LParen") THEN ParseError(ps, "expected '(' after " \o name)
    ELSE Let(parser_advance(ps), LAMBDA p1 :
         IF check(p1, "RParen") THEN Parsed(parser_advance(p1), FunctionCall(name, None))
         ELSE Try(parse_expression(p1), LAMBDA e :
              IF ~check(e.ps, "RParen")
              THEN ParseError(e.ps, "expected ')' after " \o name \o " argument")
              ELSE Parsed(parser_advance(e.ps), FunctionCall(name, Some(e.v)))))

\* the loop of parse_user_function_call (parser.rs:475-490)
parse_args(ps, args) ==
    Try(parse_expression(ps), LAMBDA e :
        IF check(e.ps, "Comma") THEN parse_args(parser_advance(e.ps), Append(args, e.v))
        ELSE IF check(e.ps, "RParen") THEN Parsed(parser_advance(e.ps), Append(args, e.v))
        ELSE ParseError(e.ps, "expected ',' or ')' in argument list"))

parse_user_function_call(ps, name) ==
    IF ~check(ps, "LParen") THEN ParseError(ps, "expected '(' after function name '" \o name \o "'")
    ELSE Let(parser_advance(ps), LAMBDA p1 :
         IF check(p1, "RParen") THEN Parsed(parser_advance(p1), UserFunctionCall(name, <<>>))
         ELSE Try(parse_args(p1, <<>>), LAMBDA r :
                  Parsed(r.ps, UserFunctionCall(name, r.v))))

parse_term(ps) ==
    Let(parser_advance(ps), LAMBDA p1 :
        CASE check(ps, "Number") -> Parsed(p1, Number(current_token(ps)[1].n))
          [] check(ps, "String") -> Parsed(p1, String(current_token(ps)[1].s))
          [] check(ps, "Braincell") -> Parsed(p1, Variable(names[current_token(ps)[1].idx + 1]))
          [] check(ps, "Identifier") ->
                IF current_token(ps)[1].name \in {"TRANSFORM", "RIZZED"}
                THEN parse_function_call(p1, current_token(ps)[1].name)
                ELSE Parsed(p1, Variable(current_token(ps)[1].name))
          [] check(ps, "Touchy") -> parse_function_call(p1, "TOUCHY")
          [] check(ps, "Ring") ->
                IF ~check(p1, "Yas") THEN ParseError(p1, "expected 'yas' after 'ring'")
                ELSE Let(parser_advance(p1), LAMBDA p2 :
                     IF ~check(p2, "Identifier")
                     THEN ParseError(p2, "expected function name after 'ring yas'")
                     ELSE parse_user_function_call(parser_advance(p2),
                                                   current_token(p2)[1].name))
          [] OTHER -> ParseError(ps, "expected expression"))

\* while the current token is none of the kinds in until, parse a statement
\* (parser.rs:102-104, 302-304, 317-319, 346-348)
parse_block(ps, until, block) ==
    IF \E kind \in until : check(ps, kind) THEN Parsed(ps, block)
    ELSE Try(parse_statement(ps), LAMBDA s : parse_block(s.ps, until, Append(block, s.v)))

\* the else of parse_if (parser.rs:306-323)
parse_else(ps) ==
    IF ~check(ps, "No") THEN Parsed(ps, None)
    ELSE Try(expect(parser_advance(ps), "Cap", "expected CAP after NO"), LAMBDA cap :
         Try(parse_block(cap.ps, {"Deadass"}, <<>>), LAMBDA b : Parsed(b.ps, Some(b.v))))

parse_if(ps) ==
    Try(parse_expression(ps), LAMBDA condition :
    Try(parse_block(condition.ps, {"No", "Deadass"}, <<>>), LAMBDA then_block :
    Try(parse_else(then_block.ps), LAMBDA else_block :
    Try(expect(else_block.ps, "Deadass", "expected DEADASS to close ONGOD block"), LAMBDA e :
        Parsed(e.ps, If(condition.v, then_block.v, else_block.v))))))

parse_while(ps) ==
    Try(parse_expression(ps), LAMBDA condition :
    Try(parse_block(condition.ps, {"Rizzup"}, <<>>), LAMBDA body :
    Try(expect(body.ps, "Rizzup", "expected RIZZUP to close SKIBIDI block"), LAMBDA e :
        Parsed(e.ps, While(condition.v, body.v)))))

\* the name after FANUMTAX or DIDDLE (parser.rs:206-224 and 239-257)
target_name(ps) ==
    IF check(ps, "Identifier") THEN Parsed(parser_advance(ps), current_token(ps)[1].name)
    ELSE IF check(ps, "Braincell")
    THEN Parsed(parser_advance(ps), names[current_token(ps)[1].idx + 1])
    ELSE ParseError(ps, "expected variable name")

\* the rest of an assignment or a copy: the name, FR, the expression
parse_store(ps) ==
    Try(target_name(ps), LAMBDA name :
    Try(expect(name.ps, "Fr", "expected FR after variable"), LAMBDA fr :
    Try(parse_expression(fr.ps), LAMBDA expr :
        Parsed(expr.ps, [name |-> name.v, expr |-> expr.v]))))

parse_statement(ps) ==
    Let(parser_advance(ps), LAMBDA p1 :
        CASE check(ps, "Fanumtax") ->
                Try(parse_store(p1), LAMBDA r : Parsed(r.ps, Assign(r.v.name, r.v.expr)))
          [] check(ps, "Diddle") ->
                Try(parse_store(p1), LAMBDA r : Parsed(r.ps, Copy(r.v.name, r.v.expr)))
          [] check(ps, "Say") ->
                Try(parse_expression(p1), LAMBDA e : Parsed(e.ps, PrintStmt(e.v)))
          [] check(ps, "Retreat") ->
                Try(parse_expression(p1), LAMBDA e : Parsed(e.ps, Return(e.v)))
          [] check(ps, "Youshallnotpass") -> Parsed(p1, Halt)
          [] check(ps, "Ongod") -> parse_if(p1)
          [] check(ps, "Skibidi") -> parse_while(p1)
          [] OTHER -> ParseError(ps, "expected statement"))

RECURSIVE parse_params(_, _)
\* the loop of parse_function (parser.rs:160-189)
parse_params(ps, params) ==
    IF ~check(ps, "Identifier") THEN ParseError(ps, "expected parameter name")
    ELSE Let(parser_advance(ps), LAMBDA p1 :
         Let(Append(params, current_token(ps)[1].name), LAMBDA more :
             IF check(p1, "Comma") THEN parse_params(parser_advance(p1), more)
             ELSE IF check(p1, "RParen") THEN Parsed(parser_advance(p1), more)
             ELSE ParseError(p1, "expected ',' or ')' in parameter list")))

RECURSIVE parse_body(_, _)
\* while !self.consume(Token::Tralala)? (parser.rs:196-198)
parse_body(ps, body) ==
    IF check(ps, "Tralala") THEN Parsed(parser_advance(ps), body)
    ELSE Try(parse_statement(ps), LAMBDA s : parse_body(s.ps, Append(body, s.v)))

parse_function(ps) ==
    IF ~check(ps, "Identifier") THEN ParseError(ps, "expected function name")
    ELSE
    Try(expect(parser_advance(ps), "LParen", "expected '(' after function name"), LAMBDA lp :
    Try(IF check(lp.ps, "RParen") THEN Parsed(parser_advance(lp.ps), <<>>)
        ELSE parse_params(lp.ps, <<>>), LAMBDA params :
    Try(parse_body(params.ps, <<>>), LAMBDA body :
        Parsed(body.ps, Function(current_token(ps)[1].name, params.v, body.v)))))

RECURSIVE parse_functions(_, _)
\* while self.consume(Token::Tralalero)? (parser.rs:86-88)
parse_functions(ps, functions) ==
    IF ~check(ps, "Tralalero") THEN Parsed(ps, functions)
    ELSE Try(parse_function(parser_advance(ps)), LAMBDA f :
             parse_functions(f.ps, Append(functions, f.v)))

\* if !self.consume(first)? || !self.consume(second)? { return Err(msg) }
expect_both(ps, first, second, msg) ==
    IF ~check(ps, first) THEN ParseError(ps, msg)
    ELSE expect(parser_advance(ps), second, msg)

\* parse_program without the check at parser.rs:117-124
parse_program_any_tail(ps) ==
    Try(parse_functions(ps, <<>>), LAMBDA functions :
    Try(expect_both(functions.ps, "Lock", "In", "program must start with LOCK IN"), LAMBDA lock :
    Try(parse_block(lock.ps, {"Its"}, <<>>), LAMBDA statements :
    Try(expect_both(statements.ps, "Its", "Over", "program must end with ITS OVER"), LAMBDA over :
        Parsed(over.ps, Program(functions.v, statements.v))))))

parse_program(ps) ==
    Try(parse_functions(ps, <<>>), LAMBDA functions :
    Try(expect_both(functions.ps, "Lock", "In", "program must start with LOCK IN"), LAMBDA lock :
    Try(parse_block(lock.ps, {"Its"}, <<>>), LAMBDA statements :
    Try(expect_both(statements.ps, "Its", "Over", "program must end with ITS OVER"), LAMBDA over :
        IF ~check(over.ps, "Eof") THEN ParseError(over.ps, "unexpected token after ITS OVER")
        ELSE Parsed(over.ps, Program(functions.v, statements.v))))))

\* Result<Program, CompileError>
NotParsed == [ok |-> FALSE, err |-> "", program |-> Program(<<>>, <<>>)]

parse(ts) ==
    Let(parse_program(ParserNew(ts)), LAMBDA r :
        IF r.err # "" THEN [ok |-> FALSE, err |-> r.err, program |-> Program(<<>>, <<>>)]
        ELSE [ok |-> TRUE, err |-> "", program |-> r.v])

-----------------------------------------------------------------------------
(* The programs compile is given: what parse returns (parser.rs:83-129) *)

RECURSIVE SeqsUpTo(_, _)
\* the sequences over S of length at most n
SeqsUpTo(S, n) ==
    IF n = 0 THEN {<<>>}
    ELSE LET shorter == SeqsUpTo(S, n - 1) IN
         shorter \cup {Append(q, x) : q \in shorter, x \in S}

NumExprs == {Number(n) : n \in 0..MaxNum}
StrExprs == {String(<<>>), String(<<97>>)}
Touchy(arg) == FunctionCall("TOUCHY", arg)

\* expressions of main blocks: aura and peak are braincells, x is an identifier
MainExprs ==
    NumExprs \cup StrExprs \cup {Variable("aura"), Variable("x")}
    \cup {Binary(op, Variable("aura"), Number(1)) : op \in {"Add", "Subtract", "Multiply"}}
    \cup {Binary("Divide", Number(1), Number(0)), Binary("Add", String(<<97>>), Number(1))}
    \cup {Touchy(None), Touchy(Some(String(<<102>>))), Touchy(Some(Variable("x")))}
    \cup {FunctionCall("TRANSFORM", Some(Touchy(None))), FunctionCall("TRANSFORM", None),
          FunctionCall("RIZZED", Some(String(<<97>>)))}
    \cup {UserFunctionCall("f", <<>>)}

Increment == Assign("aura", Binary("Add", Variable("aura"), Number(1)))

MainBlocks == {<<>>, <<PrintStmt(Number(1))>>, <<Increment>>}

MainStmts ==
    {Assign("aura", e) : e \in MainExprs}
    \cup {PrintStmt(e) : e \in NumExprs \cup {String(<<97>>), Variable("aura")}}
    \cup {Copy("peak", Variable("aura")), Copy("x", Number(1)), Assign("x", Number(1)),
          Return(Number(1)), Halt}
    \cup {If(c, b, e) : c \in {Number(0), Variable("aura"), String(<<>>), String(<<97>>)},
                        b \in MainBlocks,
                        e \in {None, Some(<<>>), Some(<<PrintStmt(String(<<97>>))>>)}}
    \cup {While(c, b) : c \in {Number(0), Binary("Subtract", Variable("aura"), Number(1))},
                        b \in MainBlocks}

\* a main block: a prefix that sets aura, one statement, and a last statement
MainPrograms ==
    {Program(<<>>, pre \o mid \o post) :
        pre \in SeqsUpTo({Assign("aura", n) : n \in NumExprs}, MaxMain - 1),
        mid \in {<<>>} \cup {<<s>> : s \in MainStmts},
        post \in {<<>>, <<PrintStmt(Variable("aura"))>>}}

\* expressions of function bodies: x, y and z are identifiers, aura is a braincell
FuncExprs ==
    {Number(1), Variable("x"), Variable("y"), Variable("aura"), Touchy(Some(Variable("z")))}

FuncBlocks == {<<>>, <<Return(Number(0))>>}

FuncStmts ==
    {Assign("y", Number(1)), Assign("aura", Number(1)), Assign("x", Number(0)), Halt}
    \cup {Return(e) : e \in FuncExprs}
    \cup {If(Variable("x"), b, e) : b \in FuncBlocks, e \in {None, Some(<<Return(Number(1))>>)}}
    \cup {While(Variable("x"), <<Assign("x", Number(0))>>)}

ParamLists == {<<>>, <<"x">>, <<"x", "y">>, <<"x", "x">>}

\* a function body: a prefix, one statement, and a last statement
FuncBodies ==
    {pre \o mid \o post :
        pre \in SeqsUpTo({Assign("y", Variable("x")), PrintStmt(Variable("x"))}, MaxBody - 1),
        mid \in {<<>>} \cup {<<s>> : s \in FuncStmts},
        post \in {<<>>, <<Return(Variable("y"))>>, <<Return(Number(1))>>}}

\* a main block that calls f with zero, one or two arguments
CallMains ==
    {<<PrintStmt(UserFunctionCall("f", args)), PrintStmt(Number(0))>> :
        args \in SeqsUpTo({Number(1)}, MaxArgs)}

OneFunctionPrograms ==
    {Program(<<Function("f", params, body)>>, main) :
        params \in ParamLists, body \in FuncBodies, main \in CallMains}

Identity == Function("f", <<"x">>, <<Return(Variable("x"))>>)
Silent == Function("f", <<>>, <<>>)
\* f calls g, which is declared after it if at all
Forward == Function("f", <<>>, <<Return(UserFunctionCall("g", <<>>))>>)

SecondFunctions ==
    { Function("g", <<"x">>, <<Return(UserFunctionCall("f", <<Variable("x")>>))>>),
      Function("f", <<"x">>, <<Return(UserFunctionCall("f", <<Variable("x")>>))>>),
      Function("g", <<>>, <<Return(UserFunctionCall("g", <<>>))>>),
      Function("g", <<"y">>, <<If(Variable("y"), <<Return(String(<<103>>))>>, None)>>) }

TwoFunctionPrograms ==
    {Program(<<first, second>>, <<PrintStmt(UserFunctionCall(name, <<Number(1)>>))>> \o post) :
        first \in {Identity, Silent, Forward}, second \in SecondFunctions, name \in {"f", "g"},
        post \in {<<>>, <<Assign("aura", FunctionCall("RIZZED", Some(String(<<102>>))))>>}}

\* a main block with a return statement inside an if, and a function whose
\* body is one if
GuardedReturnPrograms ==
    {Program(<<Function("f", <<"x">>, <<If(Variable("x"), then_block, None)>>)>>,
             <<If(Number(0), <<Return(Number(1))>>, None),
               PrintStmt(UserFunctionCall("f", <<Number(n)>>))>>) :
        then_block \in SeqsUpTo({Halt}, MaxBody), n \in 0..MaxNum}

\* a counter set to 0 and a loop on (counter - k) that prints and increments it
Counting(k) ==
    Program(<<>>, << Assign("aura", Number(0)),
                     While(Binary("Subtract", Variable("aura"), Number(k)),
                           <<PrintStmt(Variable("aura")), Increment>>) >>)

CountingPrograms == {Counting(k) : k \in 0..MaxInt}

\* a function of one, two or three parameters that returns one of them, called
\* with the arguments 0, 1 and "a" in this order
OrderedCallPrograms ==
    {Program(<<Function("f", SubSeq(<<"x", "y", "z">>, 1, k),
                        <<Return(Variable(<<"x", "y", "z">>[i]))>>)>>,
             <<PrintStmt(UserFunctionCall("f",
                   SubSeq(<<Number(0), Number(1), String(<<97>>)>>, 1, k)))>>) :
        k \in 1..3, i \in 1..3}

\* a function that main never calls, behind a main block with an if
UncalledPrograms ==
    {Program(<<f>>, <<If(Number(n), <<PrintStmt(Number(1))>>, e)>>) :
        f \in {Identity, Function("g", <<>>, <<While(Number(1), <<>>)>>)},
        n \in 0..1, e \in {None, Some(<<PrintStmt(String(<<97>>))>>)}}

Programs ==
    MainPrograms \cup OneFunctionPrograms \cup TwoFunctionPrograms \cup GuardedReturnPrograms
        \cup CountingPrograms \cup OrderedCallPrograms \cup UncalledPrograms

\* what read_line gives: a line with its ending, the end of the input, or a failure
StdinReads ==
    { [ok |-> TRUE, line |-> <<49, 10>>], [ok |-> TRUE, line |-> <<97, 32, 13, 10>>],
      [ok |-> TRUE, line |-> <<>>], [ok |-> FALSE, line |-> <<>>] }

-----------------------------------------------------------------------------
(* The state machine: compile (compiler.rs:4-37), then execute (vm.rs:25-29) *)

NoArtifact == [ok |-> FALSE, err |-> "", bytes |-> <<>>]
ArtifactOk(bytes) == [ok |-> TRUE, err |-> "", bytes |-> bytes]
ArtifactErr(msg) == [ok |-> FALSE, err |-> msg, bytes |-> <<>>]

\* the front end has not been started
FrontIdle ==
    /\ source = <<>>
    /\ tokens = NoTokens
    /\ parsed = NotParsed

Init ==
    /\ FrontIdle
    /\ prog \in Programs
    /\ pc = "functions"
    /\ comp = CompilerNew
    /\ function_code_parts = <<>>
    /\ next_stmt = 1
    /\ artifact = NoArtifact
    /\ vm = VMNew
    /\ out = <<>>

\* one iteration of the loop at compiler.rs:8-10
CompileFunction ==
    /\ pc = "functions"
    /\ Len(comp.functions) < Len(prog.functions)
    /\ LET c == compile_function(comp, prog.functions[Len(comp.functions) + 1]) IN
       /\ comp' = c
       /\ pc' = IF c.err # "" THEN "compile_error" ELSE pc
       /\ artifact' = IF c.err # "" THEN ArtifactErr(c.err) ELSE artifact
    /\ UNCHANGED <<front, prog, function_code_parts, next_stmt, vm, out>>

\* compiler.rs:13
TakeFunctionCode ==
    /\ pc = "functions"
    /\ Len(comp.functions) = Len(prog.functions)
    /\ function_code_parts' = comp.function_code_parts
    /\ comp' = [comp EXCEPT !.function_code_parts = <<>>]
    /\ pc' = "main"
    /\ UNCHANGED <<front, prog, next_stmt, artifact, vm, out>>

\* one iteration of the loop at compiler.rs:16-18
CompileMainStatement ==
    /\ pc = "main"
    /\ next_stmt <= Len(prog.main_statements)
    /\ LET c == compile_main_statement(comp, prog.main_statements[next_stmt]) IN
       /\ comp' = c
       /\ pc' = IF c.err # "" THEN "compile_error" ELSE pc
       /\ artifact' = IF c.err # "" THEN ArtifactErr(c.err) ELSE artifact
    /\ next_stmt' = next_stmt + 1
    /\ UNCHANGED <<front, prog, function_code_parts, vm, out>>

\* compiler.rs:21-36; function_code_parts is consumed there and kept here
Finish ==
    /\ pc = "main"
    /\ next_stmt > Len(prog.main_statements)
    /\ comp' = finish(comp, function_code_parts)
    /\ artifact' = ArtifactOk(write_bytecode(comp'))
    /\ pc' = "compiled"
    /\ UNCHANGED <<front, prog, function_code_parts, next_stmt, vm, out>>

\* execute: VM::new and vm.load (vm.rs:26-27)
Load ==
    /\ pc = "compiled"
    /\ artifact.ok
    /\ vm' = load(VMNew, artifact.bytes)
    /\ pc' = "exec"
    /\ UNCHANGED <<front, prog, comp, function_code_parts, next_stmt, artifact, out>>

NoRead == [ok |-> FALSE, line |-> <<>>]

\* the reads the next instruction can make: INPUT (0x0A) reads a line
Reads(m) ==
    IF m.ip < Len(m.code) /\ m.code[m.ip + 1] = 10 THEN StdinReads ELSE {NoRead}

\* the results the model follows
Followed(r) ==
    /\ ~r.capped
    /\ Len(r.m.stack) <= MaxStack
    /\ Len(r.m.call_stack) <= MaxDepth
    /\ Len(out) + Len(r.printed) <= MaxOut

\* vm.run (vm.rs:28): one iteration of its loop
Step ==
    /\ pc = "exec"
    /\ vm.status \in {"Loaded", "Running"}
    /\ \E rd \in Reads(vm) :
         LET r == step(vm, rd) IN
         /\ Followed(r)
         /\ vm' = r.m
         /\ out' = out \o r.printed
    /\ UNCHANGED <<front, prog, pc, comp, function_code_parts, next_stmt, artifact>>

Next ==
    \/ CompileFunction
    \/ TakeFunctionCode
    \/ CompileMainStatement
    \/ Finish
    \/ Load
    \/ Step

Spec == Init /\ [][Next]_vars

\* the loop of run goes on while the IP is inside the code (vm.rs:197): an
\* instruction that can be executed is executed
SpecRun == Spec /\ WF_vars(Step)

-----------------------------------------------------------------------------
(* The machine alone: execute on artifacts that no compiler wrote *)

MaxRaw == 3          \* a hand-written code section has at most MaxRaw items

\* the pool of the hand-written artifacts: 0.0, 1.0 and ""
RawPool == <<ConstNumber(0), ConstNumber(1), ConstString(<<>>)>>

\* jump operands: inside the code, at its end, and past it
RawTargets == {0, 5, 10, 15}

\* instructions, and jumps whose operand is cut short or has its top bit set
RawItems ==
    {<<1>>, <<9>>}
    \cup {<<2>> \o u32_to_le_bytes(i) : i \in 0..2}
    \cup {<<op>> \o u32_to_le_bytes(t) : op \in {11, 12}, t \in RawTargets}
    \cup {<<11>>, <<12, 0>>, <<12, 255, 255, 255, 255>>}

RawCodes == {Flatten(q) : q \in SeqsUpTo(RawItems, MaxRaw)}

\* the artifact layout of write_bytecode around a code section
RawArtifact(code) ==
    write_bytecode([CompilerNew EXCEPT !.constants = RawPool, !.code = code])

InitVM ==
    /\ FrontIdle
    /\ prog = Program(<<>>, <<>>)
    /\ pc = "compiled"
    /\ comp = CompilerNew
    /\ function_code_parts = <<>>
    /\ next_stmt = 1
    /\ artifact \in {ArtifactOk(RawArtifact(code)) : code \in RawCodes}
    /\ vm = VMNew
    /\ out = <<>>

NextVM ==
    \/ Load
    \/ Step

SpecVM == InitVM /\ [][NextVM]_vars

-----------------------------------------------------------------------------
(* The machine alone, on artifacts with a function table: calls and returns, *)
(* the globals, the arithmetic                                               *)

\* the pool of these artifacts: 0.0, 1.0, "", "a", "1", -1.0 and 10.0
OpsPool ==
    << ConstNumber(0), ConstNumber(1), ConstString(<<>>), ConstString(<<97>>),
       ConstString(<<49>>), ConstNumber(0 - 1), ConstNumber(10) >>

\* an entry of the function table as write_bytecode lays it out
\* (compiler.rs:409-423), its name being constant 2
RawFunction(arity, local_count, code_offset) ==
    u32_to_le_bytes(2) \o u16_to_le_bytes(arity) \o u16_to_le_bytes(local_count)
        \o u32_to_le_bytes(code_offset)

\* the layout of write_bytecode around a pool, a function table and a code section
OpsArtifact(table, code) ==
    Magic \o u16_to_le_bytes(4) \o u16_to_le_bytes(0)
      \o u32_to_le_bytes(Len(OpsPool))
      \o Flatten([i \in 1..Len(OpsPool) |-> write_constant(OpsPool[i])])
      \o u32_to_le_bytes(Len(table)) \o Flatten(table)
      \o u32_to_le_bytes(Len(code)) \o code

\* an entry whose name is the constant after the last one of the pool
NamelessFunction ==
    u32_to_le_bytes(Len(OpsPool)) \o u16_to_le_bytes(0) \o u16_to_le_bytes(0)
        \o u32_to_le_bytes(0)

\* function tables: empty; one function at position 0, 5 or 10; two functions;
\* a function with more parameters than locals; a function without a name
CallTables ==
    { <<>>, <<RawFunction(0, 0, 0)>>, <<RawFunction(1, 1, 0)>>, <<RawFunction(0, 0, 5)>>,
      <<RawFunction(0, 0, 10)>>, <<RawFunction(1, 2, 5), RawFunction(0, 0, 10)>>,
      <<RawFunction(2, 1, 0)>>, <<NamelessFunction>> }

\* LOAD_CONST of 1.0 and of "1", CALL of TRANSFORM and of the entries 0, 1 of
\* the table, RETURN, HALT
CallItems ==
    {<<2>> \o u32_to_le_bytes(i) : i \in {1, 4}}
    \cup {<<13>> \o u32_to_le_bytes(k) : k \in {0, 2, 3}}
    \cup {<<14>>, <<1>>}

CallArtifacts ==
    {OpsArtifact(table, Flatten(q)) : table \in CallTables, q \in SeqsUpTo(CallItems, MaxRaw)}

\* LOAD_CONST of 1.0 and of "a", LOAD_GLOBAL and STORE_GLOBAL of the slots 0, 6
\* and of the index 7, and two stores into slot 0 with their constants
GlobalItems ==
    {<<2>> \o u32_to_le_bytes(i) : i \in {1, 3}}
    \cup {<<op, g>> : op \in {3, 4}, g \in {0, 6, 7}}
    \cup {<<2>> \o u32_to_le_bytes(i) \o <<4, 0>> : i \in {1, 3}}

GlobalArtifacts == {OpsArtifact(<<>>, Flatten(q)) : q \in SeqsUpTo(GlobalItems, MaxRaw)}

\* LOAD_CONST of 0.0, 1.0, "", "a", -1.0 and 10.0, and ADD, SUB, MUL, DIV
ArithItems ==
    {<<2>> \o u32_to_le_bytes(i) : i \in {0, 1, 2, 3, 5, 6}} \cup {<<op>> : op \in 5..8}

ArithArtifacts == {OpsArtifact(<<>>, Flatten(q)) : q \in SeqsUpTo(ArithItems, MaxRaw)}

InitOps ==
    /\ FrontIdle
    /\ prog = Program(<<>>, <<>>)
    /\ pc = "compiled"
    /\ comp = CompilerNew
    /\ function_code_parts = <<>>
    /\ next_stmt = 1
    /\ artifact \in {ArtifactOk(bytes) :
                        bytes \in CallArtifacts \cup GlobalArtifacts \cup ArithArtifacts}
    /\ vm = VMNew
    /\ out = <<>>

NextOps ==
    \/ Load
    \/ Step

SpecOps == InitOps /\ [][NextOps]_vars

-----------------------------------------------------------------------------
(* The machine alone, on files that are not artifacts: a wrong magic, a cut *)
(* anywhere, a wrong constant tag, the versions 3, 4 and 5                  *)

\* the sections load reads in their order (vm.rs:75-190): the function table is
\* there from version 4 on; encoded holds the constants as they lie in the file
Layout(version, encoded, table, code) ==
    Magic \o u16_to_le_bytes(version) \o u16_to_le_bytes(0)
      \o u32_to_le_bytes(Len(encoded)) \o Flatten(encoded)
      \o (IF version >= 4 THEN u32_to_le_bytes(Len(table)) \o Flatten(table) ELSE <<>>)
      \o u32_to_le_bytes(Len(code)) \o code

\* an entry of the function table (vm.rs:156-164)
FunctionEntry(name_idx, f) ==
    u32_to_le_bytes(name_idx) \o u16_to_le_bytes(f.arity)
        \o u16_to_le_bytes(f.local_count) \o u32_to_le_bytes(f.code_offset)

LoadVersions == {3, 4, 5}

\* pools: none, 1.0, and "a" with 0.0
LoadPools == {<<>>, <<ConstNumber(1)>>, <<ConstString(<<97>>), ConstNumber(0)>>}

\* function tables: none, and f(x) at 0 followed by g() at 7
LoadTables ==
    {<<>>, <<FunctionMetadata(1, 1, 0), FunctionMetadata(0, 2, 7)>>}

\* code sections: none, HALT, and LOAD_CONST 0; PRINT; HALT
LoadCodes == {<<>>, <<1>>, <<2, 0, 0, 0, 0, 9, 1>>}

Encoded(pool) == [i \in 1..Len(pool) |-> write_constant(pool[i])]

Entries(table) == [i \in 1..Len(table) |-> FunctionEntry(0, table[i])]

\* what describes a well-formed file: a function table names a constant, so it
\* needs a pool
LoadShapes ==
    { s \in [version : LoadVersions, pool : LoadPools, table : LoadTables, code : LoadCodes] :
        /\ s.table # <<>> => s.pool # <<>>
        /\ s.version < 4 => s.table = <<>> }

FileOf(s) == Layout(s.version, Encoded(s.pool), Entries(s.table), s.code)

WellFormedFiles == {FileOf(s) : s \in LoadShapes}

\* a well-formed file cut short
TruncatedFiles ==
    UNION {{SubSeq(g, 1, n) : n \in 0..(Len(g) - 1)} : g \in WellFormedFiles}

\* a well-formed file with one byte of the magic changed to 0 or to one of b, r, c
WrongMagicFiles ==
    UNION {{[g EXCEPT ![i] = b] : i \in 1..4, b \in {0, 98, 114, 99}} : g \in WellFormedFiles}

WrongTags == {0, 3, 255}

\* a well-formed file with the tag of one constant changed
WrongTagFiles ==
    UNION {{ Layout(s.version, [Encoded(s.pool) EXCEPT ![k][1] = t], Entries(s.table), s.code) :
               k \in 1..Len(s.pool), t \in WrongTags } : s \in LoadShapes}

InitLoad ==
    /\ FrontIdle
    /\ prog = Program(<<>>, <<>>)
    /\ pc = "compiled"
    /\ comp = CompilerNew
    /\ function_code_parts = <<>>
    /\ next_stmt = 1
    /\ artifact \in {ArtifactOk(bytes) :
                        bytes \in WellFormedFiles \cup TruncatedFiles \cup WrongMagicFiles
                                    \cup WrongTagFiles}
    /\ vm = VMNew
    /\ out = <<>>

NextLoad ==
    \/ Load
    \/ Step

SpecLoad == InitLoad /\ [][NextLoad]_vars

-----------------------------------------------------------------------------
(* The machine alone, on artifacts that use the locals: outside of a call, *)
(* inside a call of f(x) with two locals, and inside a call of g() with one *)
(* local made by f                                                          *)

\* f(x) with two locals behind the CALL of main, g() with one local behind the
\* CALL of f
LocalTable == <<RawFunction(1, 2, 10), RawFunction(0, 1, 15)>>

\* what runs before the instructions under test: nothing; LOAD_CONST 1.0 and
\* CALL f; the same and CALL g
LocalPrefixes ==
    { <<>>,
      <<2>> \o u32_to_le_bytes(1) \o <<13>> \o u32_to_le_bytes(2),
      <<2>> \o u32_to_le_bytes(1) \o <<13>> \o u32_to_le_bytes(2)
          \o <<13>> \o u32_to_le_bytes(3) }

\* LOAD_LOCAL and STORE_LOCAL of the indexes 0, 1, 2, a LOAD_LOCAL without its
\* operand, LOAD_CONST of 1.0 and of "a"
LocalItems ==
    {<<op>> \o u16_to_le_bytes(i) : op \in {15, 16}, i \in 0..2}
    \cup {<<15>>}
    \cup {<<2>> \o u32_to_le_bytes(i) : i \in {1, 3}}

LocalArtifacts ==
    { OpsArtifact(LocalTable, prefix \o Flatten(q)) :
        prefix \in LocalPrefixes, q \in SeqsUpTo(LocalItems, MaxRaw) }

InitLocals ==
    /\ FrontIdle
    /\ prog = Program(<<>>, <<>>)
    /\ pc = "compiled"
    /\ comp = CompilerNew
    /\ function_code_parts = <<>>
    /\ next_stmt = 1
    /\ artifact \in {ArtifactOk(bytes) : bytes \in LocalArtifacts}
    /\ vm = VMNew
    /\ out = <<>>

NextLocals ==
    \/ Load
    \/ Step

SpecLocals == InitLocals /\ [][NextLocals]_vars

-----------------------------------------------------------------------------
(* The machine alone, on artifacts that call the built-ins *)

\* 1.0, "1", "a" and a string of one scalar value in two bytes
BuiltinPool ==
    <<ConstNumber(1), ConstString(<<49>>), ConstString(<<97>>), ConstString(<<195, 169>>)>>

\* one function of one parameter whose code is the whole code section
BuiltinTable == <<RawFunction(1, 1, 0)>>

\* LOAD_CONST of each constant, CALL of TRANSFORM, of RIZZED and of the function
BuiltinItems ==
    {<<2>> \o u32_to_le_bytes(i) : i \in 0..Len(BuiltinPool) - 1}
    \cup {<<13>> \o u32_to_le_bytes(k) : k \in 0..2}

BuiltinArtifacts ==
    { Layout(4, Encoded(BuiltinPool), BuiltinTable, Flatten(q)) :
        q \in SeqsUpTo(BuiltinItems, MaxRaw) }

InitBuiltins ==
    /\ FrontIdle
    /\ prog = Program(<<>>, <<>>)
    /\ pc = "compiled"
    /\ comp = CompilerNew
    /\ function_code_parts = <<>>
    /\ next_stmt = 1
    /\ artifact \in {ArtifactOk(bytes) : bytes \in BuiltinArtifacts}
    /\ vm = VMNew
    /\ out = <<>>

NextBuiltins ==
    \/ Load
    \/ Step

SpecBuiltins == InitBuiltins /\ [][NextBuiltins]_vars

-----------------------------------------------------------------------------
(* The machine alone, on artifacts that store into the globals outside of a *)
(* call and inside the calls of LocalPrefixes                               *)

\* LOAD_CONST of 1.0; the stores of "a" into slot 0 and of 1.0 into slot 6 with
\* their constants; STORE_GLOBAL of slot 0 and of the index 7; a STORE_GLOBAL
\* without its operand; STORE_LOCAL 0; RETURN
StoreItems ==
    { <<2>> \o u32_to_le_bytes(1),
      <<2>> \o u32_to_le_bytes(3) \o <<4, 0>>,
      <<2>> \o u32_to_le_bytes(1) \o <<4, 6>>,
      <<4, 0>>, <<4, 7>>, <<4>>,
      <<16>> \o u16_to_le_bytes(0),
      <<14>> }

StoreArtifacts ==
    { OpsArtifact(LocalTable, prefix \o Flatten(q)) :
        prefix \in LocalPrefixes, q \in SeqsUpTo(StoreItems, MaxRaw) }

InitGlobals ==
    /\ FrontIdle
    /\ prog = Program(<<>>, <<>>)
    /\ pc = "compiled"
    /\ comp = CompilerNew
    /\ function_code_parts = <<>>
    /\ next_stmt = 1
    /\ artifact \in {ArtifactOk(bytes) : bytes \in StoreArtifacts}
    /\ vm = VMNew
    /\ out = <<>>

NextGlobals ==
    \/ Load
    \/ Step

SpecGlobals == InitGlobals /\ [][NextGlobals]_vars

-----------------------------------------------------------------------------
(* The front end alone: tokenize (main.rs:64), then parse (main.rs:65) *)

\* the chars of the other words of the sources
Spelled(word) ==
    CASE word = "TRALALERO" -> <<84, 82, 65, 76, 65, 76, 69, 82, 79>>
      [] word = "TRALALA" -> <<84, 82, 65, 76, 65, 76, 65>>
      [] word = "DIDDLE" -> <<68, 73, 68, 68, 76, 69>>
      [] word = "RETREAT" -> <<82, 69, 84, 82, 69, 65, 84>>
      [] word = "YOUSHALLNOTPASS" -> <<89, 79, 85, 83, 72, 65, 76, 76, 78, 79, 84, 80, 65, 83, 83>>
      [] word = "RING" -> <<82, 73, 78, 71>>
      [] word = "YAS" -> <<89, 65, 83>>
      [] word = "x" -> <<120>>
      [] word = "f" -> <<102>>
      [] word = "Aura" -> <<65, 117, 114, 97>>
      [] word = "lock" -> <<108, 111, 99, 107>>
      [] word = "LOCKIN" -> <<76, 79, 67, 75, 73, 78>>
      [] word = "TRANSFORM" -> <<84, 82, 65, 78, 83, 70, 79, 82, 77>>
      [] OTHER -> chars(word)

\* keywords, braincells, the words the parser has tokens for, and other runs of
\* letters
LexWords ==
    {KeywordArms[i][1] : i \in 1..Len(KeywordArms)}
    \cup {BRAINCELLS[i][1] : i \in 1..Len(BRAINCELLS)}
    \cup {"TRALALERO", "TRALALA", "DIDDLE", "RETREAT", "YOUSHALLNOTPASS", "RING", "YAS"}
    \cup {"x", "f", "Aura", "lock", "LOCKIN", "TRANSFORM"}

\* main blocks with numbers, strings, escapes, a comment, the operators; an
\* unterminated string, an unknown escape, an unknown identifier, a comma
LexPrograms ==
    { <<76, 79, 67, 75, 32, 73, 78, 32, 83, 65, 89, 32, 49, 32, 73, 84, 83, 32, 79, 86, 69, 82>>,
      <<76, 79, 67, 75, 32, 73, 78, 32, 70, 65, 78, 85, 77, 84, 65, 88, 32, 97, 117, 114, 97, 32, 70, 82, 32, 49, 46, 53, 48, 32, 128128, 32, 50, 32, 83, 65, 89, 32, 97, 117, 114, 97, 32, 128527, 32, 97, 117, 114, 97, 32, 73, 84, 83, 32, 79, 86, 69, 82, 10>>,
      <<128405, 32, 97, 32, 99, 111, 109, 109, 101, 110, 116, 10, 76, 79, 67, 75, 32, 73, 78, 32, 83, 65, 89, 32, 34, 97, 92, 110, 92, 34, 98, 34, 32, 73, 84, 83, 32, 79, 86, 69, 82>>,
      <<76, 79, 67, 75, 32, 73, 78, 32, 79, 78, 71, 79, 68, 32, 97, 117, 114, 97, 32, 83, 65, 89, 32, 84, 79, 85, 67, 72, 89, 40, 41, 32, 78, 79, 32, 67, 65, 80, 32, 83, 65, 89, 32, 48, 32, 68, 69, 65, 68, 65, 83, 83, 32, 73, 84, 83, 32, 79, 86, 69, 82>>,
      <<76, 79, 67, 75, 32, 73, 78, 32, 83, 75, 73, 66, 73, 68, 73, 32, 97, 117, 114, 97, 32, 70, 65, 78, 85, 77, 84, 65, 88, 32, 97, 117, 114, 97, 32, 70, 82, 32, 97, 117, 114, 97, 32, 128557, 32, 49, 32, 82, 73, 90, 90, 85, 80, 32, 73, 84, 83, 32, 79, 86, 69, 82>>,
      <<76, 79, 67, 75, 32, 73, 78, 32, 83, 65, 89, 32, 34, 97>>,
      <<76, 79, 67, 75, 32, 73, 78, 32, 83, 65, 89, 32, 34, 92, 113, 34, 32, 73, 84, 83, 32, 79, 86, 69, 82>>,
      <<76, 79, 67, 75, 32, 73, 78, 32, 83, 65, 89, 32, 49, 32, 128673, 32, 48, 32, 73, 84, 83, 32, 79, 86, 69, 82, 32, 88>>,
      <<76, 79, 67, 75, 32, 73, 78, 32, 83, 65, 89, 32, 49, 44, 32, 50, 32, 73, 84, 83, 32, 79, 86, 69, 82>>,
      <<83, 65, 89, 32, 49>> }

\* a word; two words with a space between them; a word followed by '(' , '1',
\* '_' or a line feed; the programs
LexSources ==
    {Spelled(w) : w \in LexWords}
    \cup {Spelled(w1) \o <<32>> \o Spelled(w2) : w1, w2 \in LexWords}
    \cup {Spelled(w) \o <<ch>> : w \in LexWords, ch \in {40, 49, 95, 10}}
    \cup LexPrograms

\* the compiler and the machine have not been started
BackIdle ==
    /\ prog = Program(<<>>, <<>>)
    /\ comp = CompilerNew
    /\ function_code_parts = <<>>
    /\ next_stmt = 1
    /\ artifact = NoArtifact
    /\ vm = VMNew
    /\ out = <<>>

InitLex ==
    /\ source \in LexSources
    /\ tokens = NoTokens
    /\ parsed = NotParsed
    /\ pc = "source"
    /\ BackIdle

\* main.rs:64
Tokenize ==
    /\ pc = "source"
    /\ tokens' = tokenize(source)
    /\ pc' = "tokens"
    /\ UNCHANGED <<source, parsed, prog, comp, function_code_parts, next_stmt, artifact, vm, out>>

\* main.rs:65, reached when tokenize returned Ok
Parse ==
    /\ pc = "tokens"
    /\ tokens.ok
    /\ parsed' = parse(tokens.tokens)
    /\ pc' = "parsed"
    /\ UNCHANGED <<source, tokens, prog, comp, function_code_parts, next_stmt, artifact, vm, out>>

NextLex ==
    \/ Tokenize
    \/ Parse

SpecLex == InitLex /\ [][NextLex]_vars

-----------------------------------------------------------------------------
(* The parser alone, on token streams (parser.rs:69-72) *)

RECURSIVE ExprTokens(_)
RECURSIVE ArgTokens(_)
RECURSIVE BlockTokens(_)
RECURSIVE StmtTokens(_)

\* the arguments of a call with commas between them
ArgTokens(args) ==
    IF args = <<>> THEN <<>>
    ELSE IF Len(args) = 1 THEN ExprTokens(args[1])
    ELSE ExprTokens(args[1]) \o <<Comma>> \o ArgTokens(Tail(args))

\* the tokens an expression is written with, left to right
ExprTokens(e) ==
    CASE e.k = "Number" -> <<NumberToken(e.n)>>
      [] e.k = "String" -> <<StringToken(e.s)>>
      [] e.k = "Variable" ->
            IF \E i \in 1..Len(names) : names[i] = e.name
            THEN <<Braincell((CHOOSE i \in 1..Len(names) : names[i] = e.name) - 1)>>
            ELSE <<Identifier(e.name)>>
      [] e.k = "Binary" -> ExprTokens(e.left) \o <<Token(e.op)>> \o ExprTokens(e.right)
      [] e.k = "FunctionCall" ->
            <<IF e.name = "TOUCHY" THEN Token("Touchy") ELSE Identifier(e.name), Token("LParen")>>
            \o (IF e.arg = None THEN <<>> ELSE ExprTokens(e.arg[1])) \o <<Token("RParen")>>
      [] e.k = "UserFunctionCall" ->
            <<Token("Ring"), Token("Yas"), Identifier(e.name), Token("LParen")>>
            \o ArgTokens(e.args) \o <<Token("RParen")>>

\* the target of an assignment or a copy
NameToken(name) == Head(ExprTokens(Variable(name)))

\* the tokens a statement is written with
StmtTokens(s) ==
    CASE s.k = "Assign" -> <<Token("Fanumtax"), NameToken(s.name), Token("Fr")>> \o ExprTokens(s.expr)
      [] s.k = "Copy" -> <<Token("Diddle"), NameToken(s.dest), Token("Fr")>> \o ExprTokens(s.source)
      [] s.k = "Print" -> <<Token("Say")>> \o ExprTokens(s.expr)
      [] s.k = "Return" -> <<Token("Retreat")>> \o ExprTokens(s.expr)
      [] s.k = "Halt" -> <<Token("Youshallnotpass")>>
      [] s.k = "If" ->
            <<Token("Ongod")>> \o ExprTokens(s.condition) \o BlockTokens(s.then_block)
            \o (IF s.else_block = None THEN <<>>
                ELSE <<Token("No"), Token("Cap")>> \o BlockTokens(s.else_block[1]))
            \o <<Token("Deadass")>>
      [] s.k = "While" ->
            <<Token("Skibidi")>> \o ExprTokens(s.condition) \o BlockTokens(s.body)
            \o <<Token("Rizzup")>>

BlockTokens(block) ==
    IF block = <<>> THEN <<>> ELSE StmtTokens(block[1]) \o BlockTokens(Tail(block))

RECURSIVE ParamTokens(_)
ParamTokens(params) ==
    IF params = <<>> THEN <<>>
    ELSE IF Len(params) = 1 THEN <<Identifier(params[1])>>
    ELSE <<Identifier(params[1]), Comma>> \o ParamTokens(Tail(params))

\* TRALALERO name ( params ) body TRALALA
FunctionTokens(f) ==
    <<Token("Tralalero"), Identifier(f.name), Token("LParen")>> \o ParamTokens(f.params)
    \o <<Token("RParen")>> \o BlockTokens(f.body) \o <<Token("Tralala")>>

RECURSIVE FunctionsTokens(_)
FunctionsTokens(fs) ==
    IF fs = <<>> THEN <<>> ELSE FunctionTokens(fs[1]) \o FunctionsTokens(Tail(fs))

\* LOCK IN statements ITS OVER
MainTokens(main) ==
    <<Token("Lock"), Token("In")>> \o BlockTokens(main) \o <<Token("Its"), Token("Over")>>

\* the tokens a program is written with, before the end of the file
ProgramTokens(p) == FunctionsTokens(p.functions) \o MainTokens(p.main_statements)

\* programs written out: those with two functions, with a guarded return, the
\* counting loops, every statement of a main block alone or after a function,
\* every statement of a function body alone
WrittenPrograms ==
    TwoFunctionPrograms \cup GuardedReturnPrograms \cup CountingPrograms
    \cup {Program(fs, <<s>>) : fs \in {<<>>, <<Silent>>}, s \in MainStmts}
    \cup {Program(<<Function("f", params, <<s>>)>>, <<>>) : params \in ParamLists, s \in FuncStmts}

MaxOps == 3          \* the written chains have at most MaxOps operators

RECURSIVE FlattenPairs(_)
FlattenPairs(q) == IF q = <<>> THEN <<>> ELSE q[1] \o FlattenPairs(Tail(q))

OperatorKinds == {"Add", "Subtract", "Multiply", "Divide"}

\* SAY 1 op 2 op ... : the terms are the numbers 1, 2, ... in this order
ChainTokens(ops) ==
    <<Token("Lock"), Token("In"), Token("Say"), NumberToken(1)>>
    \o FlattenPairs([i \in 1..Len(ops) |-> <<Token(ops[i]), NumberToken(i + 1)>>])
    \o <<Token("Its"), Token("Over")>>

Chains == {ChainTokens(ops) : ops \in SeqsUpTo(OperatorKinds, MaxOps)}

\* q without its i-th token
Without(q, i) == SubSeq(q, 1, i - 1) \o SubSeq(q, i + 1, Len(q))

StrayTokens == {Token("Say"), Token("Lock"), Token("Tralalero"), NumberToken(1), Token("Over")}

\* what tokenize can return: tokens other than Eof, then one Eof. The written
\* programs and chains; each with one token missing; with a token or a function
\* definition after ITS OVER; functions without a main block; a function
\* definition that TRALALA does not close
TokenStreams ==
    LET written == {ProgramTokens(p) : p \in WrittenPrograms} \cup Chains
        late == FunctionTokens(Silent)
    IN  { ts \o <<Eof>> :
            ts \in written
                \cup UNION {{Without(w, i) : i \in 1..Len(w)} : w \in written}
                \cup {w \o <<t>> : w \in written, t \in StrayTokens}
                \cup {w \o late : w \in written}
                \cup {FunctionsTokens(p.functions) : p \in WrittenPrograms} }

InitParse ==
    /\ source = <<>>
    /\ tokens \in {TokensOk(ts) : ts \in TokenStreams}
    /\ parsed = NotParsed
    /\ pc = "tokens"
    /\ BackIdle

NextParse == Parse

SpecParse == InitParse /\ [][NextParse]_vars

-----------------------------------------------------------------------------
(* The emitted code read back: instructions and regions *)

Range(q) == {q[i] : i \in 1..Len(q)}

\* compile returned Ok (compiler.rs:36)
Accepted == pc \in {"compiled", "exec"}

\* the operand bytes each opcode reads (vm.rs:227-340, 374-487)
OperandSize(op) ==
    CASE op \in {2, 11, 12, 13} -> 4
      [] op \in {3, 4} -> 1
      [] op \in {15, 16} -> 2
      [] OTHER -> 0

RECURSIVE Instructions(_, _)
\* the positions (0-based) of the instructions of code from position p on, in order
Instructions(code, p) ==
    IF p >= Len(code) THEN <<>>
    ELSE <<p>> \o Instructions(code, p + 1 + OperandSize(code[p + 1]))

Opcode(code, p) == code[p + 1]
Operand32(code, p) == u32_from_le_bytes(Slice(code, p + 1, 4))
Operand8(code, p) == code[p + 2]

\* the positions of the JUMP and JUMP_IF_FALSE instructions of code
JumpsOf(code) == {p \in Range(Instructions(code, 0)) : Opcode(code, p) \in {11, 12}}

\* the size of main's code in the final section (compiler.rs:23)
main_code_size == Len(comp.code) - Len(Flatten(function_code_parts))
MainCode == SubSeq(comp.code, 1, main_code_size)

\* the code of the k-th function as the final section holds it
FunctionCode(k) ==
    Slice(comp.code, comp.functions[k].code_offset, Len(function_code_parts[k]))

\* the opcode of the last instruction of a piece of code (0 if it has none)
LastOpcode(code) ==
    IF code = <<>> THEN 0
    ELSE Opcode(code, Instructions(code, 0)[Len(Instructions(code, 0))])

-----------------------------------------------------------------------------
(* Jumps: C1, C2, C3 *)

\* a piece of code compiled on its own aims its jump at position q at position
\* t of itself; placed at base in the final section, the instruction it is
\* meant to reach lies at base + t, and the final operand has to name it
JumpsRelocated(base, part) ==
    \A q \in JumpsOf(part) : Operand32(comp.code, base + q) = base + Operand32(part, q)

\* C1: for every accepted program, every JUMP and JUMP_IF_FALSE operand of the
\* final code section, in main and inside every function body, is the absolute
\* position in the final section of the instruction the jump is meant to reach.
JumpOperandsAbsolute ==
    Accepted =>
        /\ JumpsRelocated(0, MainCode)
        /\ \A k \in 1..Len(comp.functions) :
              JumpsRelocated(comp.functions[k].code_offset, function_code_parts[k])

\* C2: for every accepted program, every JUMP and JUMP_IF_FALSE operand of the
\* emitted code is strictly less than the emitted code size, and no run of the
\* emitted code ends with the jump-bounds error.
JumpOperandsWithinCode ==
    /\ Accepted => \A p \in JumpsOf(comp.code) : Operand32(comp.code, p) < Len(comp.code)
    /\ pc = "exec" => vm.error # "jump target out of bounds"

\* C2 happens: a program with a jump to the last byte of the code, the final
\* HALT, has run to its end
JumpToFinalHaltRan ==
    /\ pc = "exec"
    /\ vm.status = "Halted"
    /\ \E p \in JumpsOf(comp.code) : Operand32(comp.code, p) = Len(comp.code) - 1

\* the machine is about to execute a JUMP or JUMP_IF_FALSE whose operand is whole
AtJump(m) ==
    /\ m.status \in {"Loaded", "Running"}
    /\ m.ip + 5 <= Len(m.code)
    /\ Opcode(m.code, m.ip) \in {11, 12}

JumpFault(m) == m.status = "Faulted" /\ m.error = "jump target out of bounds"

\* C3 as stated: whenever the machine executes a JUMP or JUMP_IF_FALSE whose
\* operand is at least the code length, the run ends with the jump-bounds error.
JumpOutOfRangeFaults ==
    [][ (pc = "exec" /\ AtJump(vm) /\ Operand32(vm.code, vm.ip) >= Len(vm.code))
            => JumpFault(vm') ]_vars

\* the jump the machine is about to execute is taken: a JUMP, or a
\* JUMP_IF_FALSE that pops a falsy value
JumpTaken(m) ==
    \/ Opcode(m.code, m.ip) = 11
    \/ Opcode(m.code, m.ip) = 12 /\ m.stack # <<>> /\ ~is_truthy(Top(m))

\* C3 amended: a JUMP, or a JUMP_IF_FALSE that pops a falsy value, with an
\* operand at least the code length ends the run with the jump-bounds error, and
\* with a smaller operand sets the IP to it; a JUMP_IF_FALSE that pops a truthy
\* value goes on behind its operand whatever the operand is; a JUMP_IF_FALSE on
\* an empty stack ends the run with a stack underflow. No jump sets the IP to a
\* position outside the code.
JumpBoundsCheckedWhenTaken ==
    [][ (pc = "exec" /\ AtJump(vm)) =>
          \/ UNCHANGED vars
          \/ /\ JumpTaken(vm)
             /\ IF Operand32(vm.code, vm.ip) >= Len(vm.code)
                THEN JumpFault(vm')
                ELSE vm'.status = "Running" /\ vm'.ip = Operand32(vm.code, vm.ip)
          \/ /\ Opcode(vm.code, vm.ip) = 12 /\ vm.stack # <<>> /\ is_truthy(Top(vm))
             /\ vm'.status = "Running" /\ vm'.ip = vm.ip + 5
          \/ /\ Opcode(vm.code, vm.ip) = 12 /\ vm.stack = <<>>
             /\ vm'.status = "Faulted" /\ vm'.error = "stack underflow" ]_vars

\* C3 happens: a JUMP_IF_FALSE with an operand past the code popped a falsy
\* value and the run ended with the jump-bounds error
FalsyJumpFaulted ==
    /\ pc = "exec"
    /\ JumpFault(vm)
    /\ vm.ip >= 5
    /\ Opcode(vm.code, vm.ip - 5) = 12
    /\ Operand32(vm.code, vm.ip - 5) >= Len(vm.code)

-----------------------------------------------------------------------------
(* What the AST asks the compiler for, in the order compile_statement and    *)
(* compile_expr visit it (compiler.rs:160-340): constants, reads, assignments *)
(* and calls. With all = FALSE the argument of TOUCHY is left out, as         *)
(* compile_expr leaves it out (compiler.rs:306-308).                          *)

RECURSIVE expr_events(_, _)
RECURSIVE args_events(_, _)

args_events(args, all) ==
    IF args = <<>> THEN <<>>
    ELSE expr_events(Head(args), all) \o args_events(Tail(args), all)

expr_events(e, all) ==
    CASE e.k = "Number" -> <<[ev |-> "const", c |-> ConstNumber(e.n)]>>
      [] e.k = "String" -> <<[ev |-> "const", c |-> ConstString(e.s)]>>
      [] e.k = "Variable" -> <<[ev |-> "read", name |-> e.name]>>
      [] e.k = "Binary" -> expr_events(e.left, all) \o expr_events(e.right, all)
      [] e.k = "FunctionCall" ->
            IF e.name = "TOUCHY" THEN (IF all THEN args_events(e.arg, all) ELSE <<>>)
            ELSE args_events(e.arg, all) \o <<[ev |-> "call", user |-> FALSE, name |-> e.name]>>
      [] e.k = "UserFunctionCall" ->
            args_events(e.args, all) \o <<[ev |-> "call", user |-> TRUE, name |-> e.name]>>

RECURSIVE stmt_events(_, _)
RECURSIVE block_events(_, _)

block_events(block, all) ==
    IF block = <<>> THEN <<>>
    ELSE stmt_events(Head(block), all) \o block_events(Tail(block), all)

stmt_events(s, all) ==
    CASE s.k = "Assign" -> expr_events(s.expr, all) \o <<[ev |-> "assign", name |-> s.name]>>
      [] s.k = "Copy" -> expr_events(s.source, all) \o <<[ev |-> "assign", name |-> s.dest]>>
      [] s.k = "Print" -> expr_events(s.expr, all)
      [] s.k = "Return" -> expr_events(s.expr, all)
      [] s.k = "Halt" -> <<>>
      [] s.k = "If" ->
            expr_events(s.condition, all) \o block_events(s.then_block, all)
                \o (IF s.else_block = <<>> THEN <<>> ELSE block_events(s.else_block[1], all))
      [] s.k = "While" -> expr_events(s.condition, all) \o block_events(s.body, all)

EventsOf(events, ev) == SelectSeq(events, LAMBDA x : x.ev = ev)

\* the names a block assigns
AssignedNames(block) == {x.name : x \in Range(EventsOf(block_events(block, TRUE), "assign"))}

-----------------------------------------------------------------------------
(* The value stack and the locals: C4, C5, C6 *)

RECURSIVE compile_functions(_, _)
\* compiler.rs:8-10
compile_functions(c, functions) ==
    IF functions = <<>> THEN c
    ELSE Try(compile_function(c, Head(functions)),
             LAMBDA c1 : compile_functions(c1, Tail(functions)))

\* the size of main's code once its first n statements are compiled: the
\* position of statement n + 1, or of the final HALT (compiler.rs:16-21)
MainPosition(n) ==
    Len(compile_block(compile_functions(CompilerNew, prog.functions),
                      SubSeq(prog.main_statements, 1, n)).code)

MainPositions == {MainPosition(n) : n \in 0..Len(prog.main_statements)}

\* C4: in every run of an accepted program that has not faulted, the value
\* stack is empty each time the IP is at the first instruction of a top-level
\* statement of main, and when the final HALT is reached.
StackEmptyBetweenStatements ==
    ( /\ pc = "exec"
      /\ vm.status \in {"Loaded", "Running"}
      /\ vm.call_stack = <<>>
      /\ vm.ip \in MainPositions ) => vm.stack = <<>>

\* C5: for every function of an accepted program, the local_count of the
\* function table is at least the arity and equals the number of distinct names
\* that are parameters of the function or are assigned in its body.
LocalCountCoversNames ==
    Accepted =>
        \A k \in 1..Len(prog.functions) :
            /\ comp.functions[k].local_count >= comp.functions[k].arity
            /\ comp.functions[k].local_count =
                   Cardinality(Range(prog.functions[k].params)
                                   \cup AssignedNames(prog.functions[k].body))

\* C6: the code of every function body, whatever its arity, holds no
\* LOAD_GLOBAL and no STORE_GLOBAL: every load and store of a variable is a
\* LOAD_LOCAL or a STORE_LOCAL.
FunctionBodiesUseLocals ==
    Accepted =>
        \A k \in 1..Len(comp.functions) :
            \A p \in Range(Instructions(FunctionCode(k), 0)) :
                Opcode(FunctionCode(k), p) \notin {3, 4}

-----------------------------------------------------------------------------
(* Calls, the constant pool, the ends of the code, the braincells: C7 .. C10 *)

\* what the whole program asks for, in the order of the final code section:
\* main, then the functions as declared (compiler.rs:8-33)
ProgramEvents(all) ==
    block_events(prog.main_statements, all)
        \o Flatten([k \in 1..Len(prog.functions) |-> block_events(prog.functions[k].body, all)])

\* the operands of the CALL instructions of code, in order
CallOperands(code) ==
    LET calls == SelectSeq(Instructions(code, 0), LAMBDA p : Opcode(code, p) = 13)
    IN  [i \in 1..Len(calls) |-> Operand32(code, calls[i])]

\* operand is the index the claim gives the called function: 0 and 1 for the
\* built-ins, 2 + k for the k-th declared function (k from 0)
CallMatches(operand, call) ==
    IF call.user
    THEN /\ operand >= 2 /\ operand <= 1 + Len(prog.functions)
         /\ prog.functions[operand - 1].name = call.name
    ELSE \/ call.name = "TRANSFORM" /\ operand = 0
         \/ call.name = "RIZZED" /\ operand = 1

\* C7: for an accepted program with N functions, the k-th declared function is
\* entry k of the function table, every CALL emitted for a user call has an
\* operand in 2..2+N-1 that names a declared function of the called name, and
\* the operands 0 and 1 are emitted only for TRANSFORM and RIZZED.
CallOperandsFollowDeclaration ==
    Accepted =>
        /\ Len(comp.functions) = Len(prog.functions)
        /\ \A k \in 1..Len(prog.functions) :
              /\ comp.functions[k].name = prog.functions[k].name
              /\ comp.functions[k].arity = Len(prog.functions[k].params)
        /\ LET ops == CallOperands(comp.code)
               calls == EventsOf(ProgramEvents(FALSE), "call")
           IN  /\ Len(ops) = Len(calls)
               /\ \A i \in 1..Len(ops) : CallMatches(ops[i], calls[i])

\* C7 happens: a program of two functions is accepted whose code calls the
\* second function and the built-in RIZZED
SecondFunctionAndBuiltinCalled ==
    /\ Accepted
    /\ Len(prog.functions) = 2
    /\ {1, 3} \subseteq Range(CallOperands(comp.code))

\* a constant of the compiler as the machine holds it after load
PoolValue(c) == IF c.tag = "Number" THEN NumberValue(c.n) ELSE StringValue(c.s)

\* the literals of the source: all of them, or those compile_expr visits
Literals(all) == {PoolValue(x.c) : x \in Range(EventsOf(ProgramEvents(all), "const"))}

\* the names of the declared functions, as string constants (compiler.rs:104-106)
FunctionNames == {StringValue(as_bytes(f.name)) : f \in Range(prog.functions)}

\* the "" of the default return, if a function needs it (compiler.rs:118-130)
DefaultReturns ==
    IF \E f \in Range(prog.functions) : f.body = <<>> \/ f.body[Len(f.body)].k # "Return"
    THEN {StringValue(<<>>)} ELSE {}

NoDuplicates(q) == Cardinality(Range(q)) = Len(q)

\* C8 as stated: after compile and load, the constant pool holds exactly the
\* distinct numeric and string literals of the source, each once.
PoolIsSourceLiterals ==
    pc = "exec" => Range(vm.constants) = Literals(TRUE) /\ NoDuplicates(vm.constants)

\* C8 amended: after compile and load, the constant pool holds, each once,
\* exactly the literals the compiler visits (the argument of TOUCHY is not
\* visited), the names of the declared functions, and "" if a function does not
\* end with a return statement.
PoolIsCompiledLiteralsAndNames ==
    pc = "exec" =>
        /\ Range(vm.constants) = Literals(FALSE) \cup FunctionNames \cup DefaultReturns
        /\ NoDuplicates(vm.constants)

\* C8 happens: a program with a function that uses some literal twice is loaded
RepeatedLiteralLoaded ==
    /\ pc = "exec"
    /\ prog.functions # <<>>
    /\ Len(EventsOf(ProgramEvents(FALSE), "const")) > Cardinality(Literals(FALSE))

\* C9: for every accepted program, the last opcode of main's code is HALT and
\* the last opcode of each function's code is RETURN.
CodeEndsWithHaltAndReturn ==
    Accepted =>
        /\ LastOpcode(MainCode) = 1
        /\ \A k \in 1..Len(comp.functions) : LastOpcode(FunctionCode(k)) = 14

\* C9 happens: a program is accepted with a function that ends with a return
\* statement and a function that does not
WrittenAndDefaultReturn ==
    /\ Accepted
    /\ \E f \in Range(prog.functions) : f.body = <<>>
    /\ \E f \in Range(prog.functions) : f.body # <<>> /\ f.body[Len(f.body)].k = "Return"

\* the reads and assignments of the first n statements of main
MainAccesses(n, all) ==
    SelectSeq(block_events(SubSeq(prog.main_statements, 1, n), all),
              LAMBDA x : x.ev \in {"read", "assign"})

Braincells == Range(names)

\* aura = 0 .. gyatt = 6
BraincellIndex(name) == CHOOSE i \in 0..6 : names[i + 1] = name

\* the LOAD_GLOBAL and STORE_GLOBAL instructions of code, with their operands
GlobalOps(code) ==
    LET at == SelectSeq(Instructions(code, 0), LAMBDA p : Opcode(code, p) \in {3, 4})
    IN  [i \in 1..Len(at) |-> <<Opcode(code, at[i]), Operand8(code, at[i])>>]

\* LOAD_GLOBAL for each read and STORE_GLOBAL for each assignment, at the index
\* of the name
ExpectedGlobalOps(accesses) ==
    [i \in 1..Len(accesses) |->
        <<IF accesses[i].ev = "read" THEN 3 ELSE 4, BraincellIndex(accesses[i].name)>>]

\* main compiled so far without error: every name among accesses is a
\* braincell; main accepted: its global loads and stores are those of accesses;
\* a compile error leaves no artifact
MainAccessesAreGlobals(all) ==
    /\ pc \in {"main", "compiled", "exec"} =>
          \A x \in Range(MainAccesses(next_stmt - 1, all)) : x.name \in Braincells
    /\ Accepted =>
          /\ \A p \in Range(Instructions(MainCode, 0)) : Opcode(MainCode, p) \notin {15, 16}
          /\ GlobalOps(MainCode)
                = ExpectedGlobalOps(MainAccesses(Len(prog.main_statements), all))
    /\ pc = "compile_error" => ~artifact.ok /\ artifact.bytes = <<>>

\* C10 as stated: in main, every assignment to a braincell emits STORE_GLOBAL
\* and every read LOAD_GLOBAL with the index of the name, and any read of or
\* assignment to another name makes compilation fail with no artifact.
MainNamesAreBraincells == MainAccessesAreGlobals(TRUE)

\* C10 amended: the same of the reads and assignments the compiler visits: a
\* name inside the argument of TOUCHY is neither loaded nor checked.
MainVisitedNamesAreBraincells == MainAccessesAreGlobals(FALSE)

\* C10 happens: a program without functions that names a non-braincell in main
\* has been refused
UnknownBraincellRefused ==
    /\ pc = "compile_error"
    /\ prog.functions = <<>>
    /\ artifact.err = "unknown braincell"
    /\ \E x \in Range(MainAccesses(next_stmt - 1, FALSE)) : x.name \notin Braincells

-----------------------------------------------------------------------------
(* The layout of the code section: C11 *)

\* the code of the declared functions, each compiled into its own buffer
\* (compiler.rs:8-13)
CompiledBodies == compile_functions(CompilerNew, prog.functions).function_code_parts

\* the length of the first k pieces of parts together
LengthBefore(parts, k) == Len(Flatten(SubSeq(parts, 1, k)))

\* C11: in the artifact as the machine loads it, the code section is main's
\* code, whose last byte is HALT, followed by the bodies of the functions in
\* the order of their declaration, and the code_offset of each function is the
\* length of main's code plus the lengths of the bodies declared before it:
\* the position of the first byte of its body.
CodeIsMainThenFunctions ==
    pc = "exec" =>
        LET main_size == MainPosition(Len(prog.main_statements)) + 1 IN
        /\ Len(vm.code) = main_size + Len(Flatten(CompiledBodies))
        /\ vm.code[main_size] = 1
        /\ Len(vm.functions) = Len(prog.functions)
        /\ \A k \in 1..Len(prog.functions) :
              LET offset == main_size + LengthBefore(CompiledBodies, k - 1) IN
              /\ vm.functions[k].code_offset = offset
              /\ Slice(vm.code, offset, Len(CompiledBodies[k])) = CompiledBodies[k]

\* C11 happens: a program of two functions is loaded, the second placed behind
\* the first, the first behind a main that is more than its HALT
SecondFunctionBehindFirst ==
    /\ pc = "exec"
    /\ Len(vm.functions) = 2
    /\ vm.functions[1].code_offset > 1
    /\ vm.functions[2].code_offset > vm.functions[1].code_offset

-----------------------------------------------------------------------------
(* Calls and returns: C12, C13, C14 *)

\* the machine is about to execute the opcode op, with op_size operand bytes
At(m, op, op_size) ==
    /\ m.status \in {"Loaded", "Running"}
    /\ m.ip + 1 + op_size <= Len(m.code)
    /\ Opcode(m.code, m.ip) = op

\* the entry of the function table a CALL with operand k names
Callee(m, k) == m.functions[k - 1]

\* a CALL of the k-th entry with enough values on the stack has acted on m and
\* given m2: one frame more, the arguments in its first slots, the last pushed
\* argument in slot 0
FramePushed(m, m2, k) ==
    LET func == Callee(m, k)
        n == Len(m.stack)
        d == Len(m.call_stack)
    IN  /\ m2.status = "Running"
        /\ Len(m2.call_stack) = d + 1
        /\ SubSeq(m2.call_stack, 1, d) = m.call_stack
        /\ m2.call_stack[d + 1].return_address = m.ip + 5
        /\ Len(m2.call_stack[d + 1].locals) = func.local_count
        /\ \A j \in 1..func.local_count :
              m2.call_stack[d + 1].locals[j] =
                  IF j <= func.arity THEN Some(m.stack[n - j + 1]) ELSE None
        /\ m2.stack = SubSeq(m.stack, 1, n - func.arity)
        /\ m2.ip = func.code_offset

\* a CALL has failed on m and given m2: a runtime error and no frame pushed
CallRefused(m, m2) ==
    /\ m2.status = "Faulted"
    /\ m2.call_stack = m.call_stack

\* C12: a CALL with an index k >= 2, executed below the limit of the call
\* stack, pushes exactly one frame if k names a function of the table and the
\* stack holds at least arity values: the return address is the IP behind the
\* operand, the locals are local_count slots, the j-th popped value is in
\* locals[j], the other slots are unset, the rest of the stack is unchanged and
\* the IP is the code_offset of the function; with fewer values, or with k
\* beyond the table, it fails and pushes no frame.
CallPushesFrame ==
    [][ ( /\ pc = "exec"
          /\ At(vm, 13, 4)
          /\ Operand32(vm.code, vm.ip) >= 2
          /\ Len(vm.call_stack) < CallStackLimit ) =>
        \/ UNCHANGED vars
        \/ LET k == Operand32(vm.code, vm.ip) IN
           IF k - 2 < Len(vm.functions) /\ Len(vm.stack) >= Callee(vm, k).arity
           THEN FramePushed(vm, vm', k)
           ELSE CallRefused(vm, vm') ]_vars

CallOverflow(m) == m.status = "Faulted" /\ m.error = "call stack overflow"

\* C13: the call stack of the machine never holds more than 256 frames, and a
\* CALL executed at a depth of 256 or more, whatever its operand, ends the run
\* with the call-stack-overflow error and pushes no frame.
CallStackCapped ==
    /\ [](pc = "exec" => Len(vm.call_stack) <= CallStackLimit)
    /\ [][ (pc = "exec" /\ At(vm, 13, 0) /\ Len(vm.call_stack) >= CallStackLimit) =>
             \/ UNCHANGED vars
             \/ CallOverflow(vm') /\ vm'.call_stack = vm.call_stack ]_vars

\* C13 happens: a CALL of the built-in TRANSFORM, executed at depth 256, has
\* ended the run with the call-stack-overflow error
BuiltinCallOverflowed ==
    /\ pc = "exec"
    /\ CallOverflow(vm)
    /\ Len(vm.call_stack) = CallStackLimit
    /\ vm.ip >= 5
    /\ Opcode(vm.code, vm.ip - 5) = 13
    /\ Operand32(vm.code, vm.ip - 5) = 0

\* a RETURN has acted on m, whose call stack and value stack are not empty, and
\* given m2: the top frame is gone, the IP is its return address, the value
\* stack is as it was
FramePopped(m, m2) ==
    LET d == Len(m.call_stack) IN
    /\ m2.status = "Running"
    /\ m2.call_stack = SubSeq(m.call_stack, 1, d - 1)
    /\ m2.ip = m.call_stack[d].return_address
    /\ m2.stack = m.stack

ReturnOutside(m) == m.status = "Faulted" /\ m.error = "return outside of function"

\* RETURN as the machine executes it: C14 without its last clause
ReturnEffect(m, m2) ==
    IF m.call_stack = <<>> THEN ReturnOutside(m2)
    ELSE m.stack # <<>> => FramePopped(m, m2)

\* the positions of the RETURN instructions of main's code: the return
\* statements of the main block (compiler.rs:174-177)
MainReturns == {p \in Range(Instructions(MainCode, 0)) : Opcode(MainCode, p) = 14}

\* C14: a RETURN executed with a non-empty call stack and a non-empty value
\* stack removes the top frame, sets the IP to its return address and leaves the
\* value stack as it is; a RETURN executed with an empty call stack fails; and
\* the RETURN of a return statement of the main block, when it is executed,
\* ends the run in a runtime error.
ReturnPopsFrameAndFailsInMain ==
    [][ (pc = "exec" /\ At(vm, 14, 0)) =>
          \/ UNCHANGED vars
          \/ /\ ReturnEffect(vm, vm')
             /\ vm.ip \in MainReturns => vm'.status = "Faulted" ]_vars

-----------------------------------------------------------------------------
(* The lifecycle of the machine: C15 *)

Lifecycle == {"Uninitialized", "Loaded", "Running", "Halted", "Faulted"}

\* the machine m is about to leave the loop of run with Ok: the IP is at the end
\* of the code, or at a HALT or a HALT_ALT
AtHalt(m) == m.ip >= Len(m.code) \/ Opcode(m.code, m.ip) \in {1, 18}

\* the byte at the IP of m is no opcode
AtUnknownOpcode(m) == m.ip < Len(m.code) /\ Opcode(m.code, m.ip) \notin 1..18

\* one step of the lifecycle from m to m2, printing from o to o2
LifecycleStep(m, m2, o, o2) ==
    CASE m.status = "Uninitialized" ->
            (m2 = m \/ m2.status \in {"Loaded", "Faulted"}) /\ o2 = o
      [] m.status \in {"Loaded", "Running"} ->
            /\ m2.status \in {"Running", "Halted", "Faulted"}
            /\ m2.status = "Halted" <=> AtHalt(m)
            /\ AtHalt(m) => m2.stack = m.stack /\ m2.call_stack = m.call_stack /\ o2 = o
            /\ AtUnknownOpcode(m) => m2.status = "Faulted" /\ m2.error = "unknown opcode"
            /\ m2.status = "Faulted" <=> m2.error # ""
      [] OTHER -> m2 = m /\ o2 = o

\* C15: the machine goes Uninitialized -> Loaded -> Running -> Halted or
\* Faulted. It runs only once loaded; a run ends Halted exactly when it executes
\* HALT or HALT_ALT, at any depth and with any stack, or when the IP is at the
\* end of the code; a runtime error, an unknown opcode among them, ends it
\* Faulted at once; Halted and Faulted are final: nothing is executed or
\* printed after them.
LifecycleFollowed ==
    /\ [](vm.status \in Lifecycle)
    /\ [][LifecycleStep(vm, vm', out, out')]_vars

-----------------------------------------------------------------------------
(* The globals: C16 *)

\* a LOAD_GLOBAL of index g has acted on m and given m2
LoadGlobalEffect(m, m2, g) ==
    IF g >= 7 \/ m.globals[g + 1] = None
    THEN m2.status = "Faulted" /\ m2.stack = m.stack
    ELSE m2.status = "Running" /\ m2.stack = Append(m.stack, m.globals[g + 1][1])

\* m is about to execute a STORE_GLOBAL that stores: the index is a slot and
\* the stack holds a value
Stores(m) == At(m, 4, 1) /\ Operand8(m.code, m.ip) < 7 /\ m.stack # <<>>

\* the globals after one step from m to m2: a STORE_GLOBAL that stores puts the
\* top of the stack into its slot, every other step leaves the globals alone
GlobalsEffect(m, m2) ==
    IF Stores(m)
    THEN m2.globals = [m.globals EXCEPT ![Operand8(m.code, m.ip) + 1] = Some(Top(m))]
    ELSE m2.globals = m.globals

\* C16: the seven globals are unset when a run starts; a slot changes only by
\* a STORE_GLOBAL into it, which sets it to the value stored; a LOAD_GLOBAL of
\* an unset slot, or of an index of 7 or more, fails and pushes nothing, and a
\* LOAD_GLOBAL of a set slot pushes the value of the slot, the one most recently
\* stored in it.
GlobalsUnsetUntilStored ==
    /\ [](vm.status \in {"Uninitialized", "Loaded"} => \A i \in 1..7 : vm.globals[i] = None)
    /\ [][ pc = "exec" =>
             \/ UNCHANGED vars
             \/ /\ GlobalsEffect(vm, vm')
                /\ At(vm, 3, 1) => LoadGlobalEffect(vm, vm', Operand8(vm.code, vm.ip)) ]_vars

\* C16 happens: 1.0 and then "a" were stored into slot 0, and a LOAD_GLOBAL of
\* slot 0 has pushed "a"
SecondStoreLoaded ==
    /\ pc = "exec"
    /\ vm.code = <<2, 1, 0, 0, 0, 4, 0, 2, 3, 0, 0, 0, 4, 0, 3, 0>>
    /\ vm.ip = 16
    /\ vm.stack = <<StringValue(<<97>>)>>

-----------------------------------------------------------------------------
(* The arithmetic: C17, C18 *)

\* m is about to execute the binary opcode op with both operands on the stack
AtBinary(m, op) == At(m, op, 0) /\ Len(m.stack) >= 2

\* the operands of a binary opcode: left was pushed first, right second
Left(m) == m.stack[Len(m.stack) - 1]
Right(m) == Top(m)

\* a binary opcode has acted on m and given m2: both operands are popped and v
\* is pushed
Replaced(m, m2, v) ==
    /\ m2.status = "Running"
    /\ m2.stack = Append(SubSeq(m.stack, 1, Len(m.stack) - 2), v)

\* what ADD gives for x and y: the display forms joined if one is a string,
\* the sum if both are numbers
Sum(x, y) ==
    IF x.t = "String" \/ y.t = "String"
    THEN StringValue(format_for_print(x) \o format_for_print(y))
    ELSE NumberValue(x.n + y.n)

\* C17: ADD on x (pushed first) and y (pushed second) replaces them with the
\* display form of x followed by the display form of y if at least one is a
\* string, and with their sum if both are numbers; it does not fail on the
\* types of its operands.
AddJoinsOrSums ==
    [][ (pc = "exec" /\ AtBinary(vm, 5)) =>
          \/ UNCHANGED vars
          \/ Replaced(vm, vm', Sum(Left(vm), Right(vm))) ]_vars

\* C17 happens: ADD on the number 10 and the string "a" has given "10a"
NumberJoinedToString ==
    /\ pc = "exec"
    /\ vm.status = "Running"
    /\ vm.ip = 11
    /\ Opcode(vm.code, 10) = 5
    /\ vm.stack = <<StringValue(<<49, 48, 97>>)>>

\* a binary opcode has failed on m and given m2: both operands are popped,
\* nothing is pushed, the run is Faulted
BinaryFailed(m, m2) ==
    /\ m2.status = "Faulted"
    /\ m2.stack = SubSeq(m.stack, 1, Len(m.stack) - 2)

DivisionByZero(m) == m.error = "division by zero"

IsZero(v) == v.t = "Number" /\ v.n = 0

\* v is left op right for the opcodes SUB (6), MUL (7) and DIV (8), the
\* quotient being exact
Computes(op, v, left, right) ==
    /\ v.t = "Number"
    /\ CASE op = 6 -> v.n = left.n - right.n
         [] op = 7 -> v.n = left.n * right.n
         [] op = 8 -> v.n * right.n = left.n

\* SUB, MUL or DIV on two numbers has acted on m and given m2
Computed(m, m2, op) ==
    /\ m2.status = "Running"
    /\ Len(m2.stack) = Len(m.stack) - 1
    /\ SubSeq(m2.stack, 1, Len(m.stack) - 2) = SubSeq(m.stack, 1, Len(m.stack) - 2)
    /\ Computes(op, Top(m2), Left(m), Right(m))

OneIsString(m) == Left(m).t = "String" \/ Right(m).t = "String"

\* C18 as stated: SUB, MUL and DIV pop right, then left, and push left op right
\* when both are numbers; each fails when an operand is a string; DIV fails
\* with the division-by-zero error whenever the divisor is zero, whatever the
\* dividend; a failure pushes nothing and leaves the run Faulted.
DivisionByZeroWhateverDividend ==
    [][ \A op \in {6, 7, 8} :
          (pc = "exec" /\ AtBinary(vm, op)) =>
             \/ UNCHANGED vars
             \/ IF op = 8 /\ IsZero(Right(vm))
                THEN BinaryFailed(vm, vm') /\ DivisionByZero(vm')
                ELSE IF OneIsString(vm) THEN BinaryFailed(vm, vm')
                ELSE Computed(vm, vm', op) ]_vars

\* C18 amended: the types are looked at first. With a string among the
\* operands SUB, MUL and DIV fail with the error that names the operation,
\* also when the divisor is zero; with two numbers DIV fails with the
\* division-by-zero error if the divisor is zero, and otherwise left op right
\* replaces the operands; a failure pops both operands, pushes nothing and
\* leaves the run Faulted.
TypesBeforeDivisionByZero ==
    [][ \A op \in {6, 7, 8} :
          (pc = "exec" /\ AtBinary(vm, op)) =>
             \/ UNCHANGED vars
             \/ IF OneIsString(vm)
                THEN BinaryFailed(vm, vm') /\ vm'.error # "" /\ ~DivisionByZero(vm')
                ELSE IF op = 8 /\ IsZero(Right(vm))
                THEN BinaryFailed(vm, vm') /\ DivisionByZero(vm')
                ELSE Computed(vm, vm', op) ]_vars

\* C18 happens: DIV on the string "a" and the number 0 has failed with the
\* error of the types
StringDividedByZero ==
    /\ pc = "exec"
    /\ vm.status = "Faulted"
    /\ vm.code = <<2, 3, 0, 0, 0, 2, 0, 0, 0, 0, 8>>
    /\ vm.error = "division requires both operands to be numbers"

-----------------------------------------------------------------------------
(* The if and the while of the main block: C19, C20 *)

\* the sizes of the code of an expression and of a block (compiler.rs:160-340)
ExprSize(e) == Len(compile_expr([comp EXCEPT !.code = <<>>], e).code)
BlockSize(b) == Len(compile_block([comp EXCEPT !.code = <<>>], b).code)

\* a number other than 0, or a non-empty string
Truthy(v) == (v.t = "Number" /\ v.n # 0) \/ (v.t = "String" /\ v.s # <<>>)

\* the top-level statements of main of kind k
MainStatements(k) == {n \in 1..Len(prog.main_statements) : prog.main_statements[n].k = k}

\* where the parts of the n-th statement of main, an if, lie in the code: the
\* JUMP_IF_FALSE behind the condition, the then-block, the JUMP behind it if
\* there is an else, the else-block, and the first instruction behind the if
IfLayout(n) ==
    LET s == prog.main_statements[n]
        jif == MainPosition(n - 1) + ExprSize(s.condition)
        then_end == jif + 5 + BlockSize(s.then_block)
    IN  [ jif |-> jif, then_start |-> jif + 5, then_end |-> then_end,
          else_start |-> IF s.else_block = <<>> THEN then_end ELSE then_end + 5,
          end |-> MainPosition(n) ]

\* a step from m to m2 of the main block itself (no call is active before or
\* after it) that does not end the run stays within lo..hi
StaysWithin(m, m2, lo, hi) ==
    (m.call_stack = <<>> /\ m2.call_stack = <<>> /\ m2.status = "Running") => m2.ip \in lo..hi

\* one step from m to m2 follows the if at statement n of main
IfStep(m, m2, n) ==
    LET at == IfLayout(n)
        s == prog.main_statements[n]
    IN  /\ (m.ip = at.jif /\ m.stack # <<>>) =>
              /\ m2.status = "Running"
              /\ m2.stack = Pop(m).stack
              /\ m2.ip = IF Truthy(Top(m)) THEN at.then_start ELSE at.else_start
        /\ m.ip \in at.then_start..(at.then_end - 1) =>
              StaysWithin(m, m2, at.then_start, at.then_end)
        /\ (s.else_block # <<>> /\ m.ip = at.then_end) =>
              m2.status = "Running" /\ m2.stack = m.stack /\ m2.ip = at.end
        /\ m.ip \in at.else_start..(at.end - 1) => StaysWithin(m, m2, at.else_start, at.end)
        /\ s.else_block = <<>> => at.end = at.then_end

\* C19: an if of the main block runs exactly one branch. Its JUMP_IF_FALSE
\* pops the condition value and goes on at the then-block if the value is
\* truthy (a number other than 0, a non-empty string) and at the else-block, or
\* behind the if when there is no else, if it is falsy; the then-block, run by
\* the main block, goes on to its end and from there behind the whole if, past
\* the else-block; the else-block goes on to the first instruction behind the
\* if.
IfRunsOneBranch ==
    [][ (pc = "exec" /\ vm.status \in {"Loaded", "Running"}) =>
          \/ UNCHANGED vars
          \/ \A n \in MainStatements("If") : IfStep(vm, vm', n) ]_vars

\* C19 happens: an if with both branches not empty had a falsy condition, its
\* else-block has printed, and the run is at the first instruction behind it
ElseBranchRan ==
    /\ pc = "exec"
    /\ vm.status = "Running"
    /\ \E n \in MainStatements("If") :
          /\ prog.main_statements[n].then_block # <<>>
          /\ prog.main_statements[n].else_block = Some(<<PrintStmt(String(<<97>>))>>)
          /\ vm.ip = IfLayout(n).end
          /\ out = <<(<<97>>)>>

\* where the parts of the n-th statement of main, a while, lie in the code:
\* the condition at the start of the loop, the JUMP_IF_FALSE behind it, the
\* body, the backward JUMP, and the first instruction behind the loop
WhileLayout(n) ==
    LET s == prog.main_statements[n]
        start == MainPosition(n - 1)
        jif == start + ExprSize(s.condition)
        jump == jif + 5 + BlockSize(s.body)
    IN  [ start |-> start, jif |-> jif, body_start |-> jif + 5, jump |-> jump,
          end |-> MainPosition(n) ]

\* one step from m to m2 follows the while at statement n of main
WhileStep(m, m2, n) ==
    LET at == WhileLayout(n) IN
    /\ at.end = at.jump + 5
    /\ m.ip \in at.start..(at.jif - 1) => StaysWithin(m, m2, at.start, at.jif)
    /\ (m.ip = at.jif /\ m.stack # <<>>) =>
          /\ m2.status = "Running"
          /\ m2.stack = Pop(m).stack
          /\ m2.ip = IF Truthy(Top(m)) THEN at.body_start ELSE at.end
    /\ m.ip \in at.body_start..(at.jump - 1) => StaysWithin(m, m2, at.body_start, at.jump)
    /\ m.ip = at.jump => m2.status = "Running" /\ m2.stack = m.stack /\ m2.ip = at.start

RECURSIVE Counted(_)
\* the lines 0, 1, .., k - 1
Counted(k) == IF k = 0 THEN <<>> ELSE Append(Counted(k - 1), format_number(k - 1))

IsPrefix(p, q) == Len(p) <= Len(q) /\ p = SubSeq(q, 1, Len(p))

\* C20: a while of the main block evaluates its condition before every
\* iteration: the JUMP_IF_FALSE behind the condition pops the value and goes on
\* at the body if it is truthy and behind the backward JUMP if it is falsy, and
\* the JUMP behind the body goes back to the condition. A counter set to 0 with
\* the condition (counter - k) and a body that prints and increments it prints
\* 0, 1, .., k - 1 and stops; for k = 3 that is 0, 1, 2.
WhileRunsUntilFalsy ==
    /\ [][ (pc = "exec" /\ vm.status \in {"Loaded", "Running"}) =>
             \/ UNCHANGED vars
             \/ \A n \in MainStatements("While") : WhileStep(vm, vm', n) ]_vars
    /\ [](\A k \in 0..MaxInt :
            (pc = "exec" /\ prog = Counting(k)) =>
                /\ IsPrefix(out, Counted(k))
                /\ vm.status \notin {"Faulted", "Panicked"}
                /\ vm.status = "Halted" => out = Counted(k))

\* C20 happens: the loop on (counter - 3) has printed 0, 1, 2 and the run has
\* ended
CountedToThree ==
    /\ pc = "exec"
    /\ prog = Counting(3)
    /\ vm.status = "Halted"
    /\ out = <<(<<48>>), <<49>>, <<50>>>>

-----------------------------------------------------------------------------
(* The loader and the files it refuses: C21 *)

\* C21: load fails with an error, and run is never started, for a file whose
\* magic is not BRBC, that is cut at any point, or that holds a constant tag
\* other than 1 or 2; load reads a function table if and only if the version is
\* 4 or more, and accepts every well-formed file.
Malformed(bytes) == bytes \in TruncatedFiles \cup WrongMagicFiles \cup WrongTagFiles

Refused(m) ==
    /\ m.status = "Faulted" /\ m.error # ""
    /\ m.code = <<>> /\ m.ip = 0 /\ m.stack = <<>>

LoadedAs(m, s) ==
    /\ m.status = "Loaded" /\ m.error = ""
    /\ m.constants = [i \in 1..Len(s.pool) |-> PoolValue(s.pool[i])]
    /\ m.functions = (IF s.version >= 4 THEN s.table ELSE <<>>)
    /\ m.code = s.code
    /\ m.ip = 0

LoadRefusesMalformedFiles ==
    /\ [](pc = "exec" /\ Malformed(artifact.bytes) => Refused(vm) /\ out = <<>>)
    /\ [][ pc = "compiled" /\ pc' = "exec" =>
             \A s \in LoadShapes : artifact.bytes = FileOf(s) => LoadedAs(vm', s) ]_vars

CutInsideFunctionTable ==
    /\ pc = "exec"
    /\ artifact.bytes \in TruncatedFiles
    /\ vm.status = "Faulted" /\ vm.error = "invalid function entry"
    /\ Len(vm.constants) = 2

-----------------------------------------------------------------------------
(* The artifact read back: C22 *)

\* C22: for every program the compiler accepts, loading the emitted artifact
\* succeeds and gives the machine the compiler's state: the constants in their
\* order with their values, one entry per declared function in declaration
\* order with its arity, local_count and code_offset, the code buffer byte for
\* byte, and the IP at 0.
SameFunctions(m, c) ==
    /\ Len(m.functions) = Len(prog.functions)
    /\ Len(c.functions) = Len(prog.functions)
    /\ \A i \in 1..Len(prog.functions) :
          /\ c.functions[i].name = prog.functions[i].name
          /\ m.functions[i] = FunctionMetadata(c.functions[i].arity,
                                  c.functions[i].local_count, c.functions[i].code_offset)

LoadReproducesCompiler ==
    [][ pc = "compiled" /\ pc' = "exec" =>
          /\ vm'.status = "Loaded"
          /\ vm'.constants = [i \in 1..Len(comp.constants) |-> PoolValue(comp.constants[i])]
          /\ SameFunctions(vm', comp)
          /\ vm'.code = comp.code
          /\ vm'.ip = 0 ]_vars

TwoFunctionsLoaded ==
    /\ pc = "exec"
    /\ vm.status = "Loaded"
    /\ Len(vm.functions) = 2
    /\ vm.functions[2].code_offset > vm.functions[1].code_offset
    /\ \E i, j \in 1..Len(vm.constants) : vm.constants[i].t # vm.constants[j].t

-----------------------------------------------------------------------------
(* INPUT: C23 *)

RECURSIVE StripLineEnding(_)
\* the line without its trailing CR and LF characters
StripLineEnding(s) ==
    IF s # <<>> /\ s[Len(s)] \in {10, 13} THEN StripLineEnding(SubSeq(s, 1, Len(s) - 1))
    ELSE s

\* INPUT has read the line rd and pushed it without its line ending
InputPushed(m, m2, rd) ==
    /\ rd.ok
    /\ m2.stack = Append(m.stack, StringValue(StripLineEnding(rd.line)))
    /\ m2.ip = m.ip + 1
    /\ m2.status = "Running"

InputFailed(m, m2) ==
    /\ m2.status = "Faulted" /\ m2.error = "failed to read from stdin"
    /\ m2.stack = m.stack

\* C23: INPUT pushes exactly one string, the line read from standard input
\* with its trailing CR and LF characters removed and no other character
\* removed, and leaves the rest of the value stack unchanged.
InputPushesLineWithoutItsEnding ==
    [][ pc = "exec" /\ At(vm, 10, 0) =>
          \/ \E rd \in StdinReads : InputPushed(vm, vm', rd)
          \/ InputFailed(vm, vm') ]_vars

-----------------------------------------------------------------------------
(* The default return: C29 *)

\* the functions whose body does not end with a return statement
WithoutFinalReturn ==
    {k \in 1..Len(prog.functions) :
        LET body == prog.functions[k].body IN body = <<>> \/ body[Len(body)].k # "Return"}

\* the position just behind the body of the k-th function: where the statements
\* of the body end and the code the compiler appends begins
BodyEnd(k) == comp.functions[k].code_offset + Len(function_code_parts[k]) - 6

EmptyString == StringValue(<<>>)

\* the call has come back with the empty string: the frame is gone, the IP is
\* just behind the CALL that pushed it, the empty string is on top
ReturnedEmptyString(m, m2) ==
    LET d == Len(m.call_stack) IN
    /\ m2.status = "Running"
    /\ m2.call_stack = SubSeq(m.call_stack, 1, d - 1)
    /\ m2.ip = m.call_stack[d].return_address
    /\ Opcode(m2.code, m2.ip - 5) = 13
    /\ m2.stack = m.stack
    /\ Top(m2) = EmptyString

\* C29: when a call of a user function whose body does not end with a return
\* statement runs to the end of the body, the call returns the empty string:
\* the machine pushes the empty string and then pops the frame, so that the
\* empty string is on top of the stack and the IP is just behind the CALL.
BodyEndReturnsEmptyString ==
    [][ (pc = "exec" /\ vm.status = "Running" /\ vm.call_stack # <<>>) =>
          \A k \in WithoutFinalReturn :
             /\ vm.ip = BodyEnd(k) =>
                    /\ vm'.status = "Running"
                    /\ vm'.ip = BodyEnd(k) + 5
                    /\ vm'.stack = Append(vm.stack, EmptyString)
                    /\ vm'.call_stack = vm.call_stack
             /\ (vm.ip = BodyEnd(k) + 5 /\ vm.stack # <<>> /\ Top(vm) = EmptyString) =>
                    ReturnedEmptyString(vm, vm') ]_vars

\* f, whose body is an assignment, has been called by main and has returned
AssignmentBodyReturned ==
    /\ pc = "exec"
    /\ vm.status = "Running"
    /\ vm.call_stack = <<>>
    /\ vm.stack = <<EmptyString>>
    /\ vm.ip >= 5
    /\ Opcode(vm.code, vm.ip - 5) = 13
    /\ Operand32(vm.code, vm.ip - 5) = 2
    /\ 1 \in WithoutFinalReturn
    /\ prog.functions[1].body # <<>>

-----------------------------------------------------------------------------
(* The locals: C30 *)

\* the index a LOAD_LOCAL or STORE_LOCAL at the IP of m names (read_u16 gives 0
\* when the code ends before the operand)
LocalIndex(m) ==
    IF m.ip + 3 <= Len(m.code) THEN u16_from_le_bytes(Slice(m.code, m.ip + 1, 2)) ELSE 0

TopFrame(m) == m.call_stack[Len(m.call_stack)]

\* no frame, or an index that is not less than the local count of the top frame
NoSuchLocal(m) ==
    m.call_stack = <<>> \/ LocalIndex(m) >= Len(TopFrame(m).locals)

LocalFailed(m, m2) ==
    /\ m2.status = "Faulted" /\ m2.error # ""
    /\ m2.stack = m.stack
    /\ m2.call_stack = m.call_stack

LoadLocalEffect(m, m2) ==
    IF NoSuchLocal(m) THEN LocalFailed(m, m2)
    ELSE IF TopFrame(m).locals[LocalIndex(m) + 1] = None THEN LocalFailed(m, m2)
    ELSE /\ m2.status = "Running"
         /\ m2.stack = Append(m.stack, TopFrame(m).locals[LocalIndex(m) + 1][1])
         /\ m2.call_stack = m.call_stack

StoreLocalEffect(m, m2) ==
    IF NoSuchLocal(m) \/ m.stack = <<>> THEN LocalFailed(m, m2)
    ELSE /\ m2.status = "Running"
         /\ m2.stack = SubSeq(m.stack, 1, Len(m.stack) - 1)
         /\ m2.call_stack =
              [m.call_stack EXCEPT ![Len(m.call_stack)].locals[LocalIndex(m) + 1] = Some(Top(m))]

\* a step that is not a STORE_LOCAL: the frames that stay keep their locals, and
\* a frame that a CALL pushes has exactly its first arity slots written
OtherStepEffect(m, m2) ==
    LET d == Len(m.call_stack)
        d2 == Len(m2.call_stack)
    IN  /\ d2 <= d + 1
        /\ d2 <= d => m2.call_stack = SubSeq(m.call_stack, 1, d2)
        /\ d2 = d + 1 =>
              /\ SubSeq(m2.call_stack, 1, d) = m.call_stack
              /\ At(m, 13, 4)
              /\ LET func == Callee(m, Operand32(m.code, m.ip)) IN
                 /\ Len(TopFrame(m2).locals) = func.local_count
                 /\ \A j \in 1..func.local_count :
                       TopFrame(m2).locals[j] # None <=> j <= func.arity

\* C30: LOAD_LOCAL and STORE_LOCAL act on the locals of the topmost call frame
\* only: each fails when the call stack is empty or when the index is not less
\* than the local count of that frame; LOAD_LOCAL fails too when the slot has
\* not been written in that frame (by the binding of an argument or by a
\* STORE_LOCAL), and otherwise pushes the value most recently stored in it.
LocalsOfTopFrameOnly ==
    [][ pc = "exec" =>
          /\ At(vm, 15, 0) => LoadLocalEffect(vm, vm')
          /\ At(vm, 16, 0) => StoreLocalEffect(vm, vm')
          /\ ~At(vm, 16, 0) => OtherStepEffect(vm, vm') ]_vars

\* inside g called by f(1.0): "a" was stored into slot 0 of g's frame and read
\* back, slot 0 of f's frame still holds 1.0
StoredInTopFrameAndLoaded ==
    /\ pc = "exec"
    /\ vm.status = "Running"
    /\ Len(vm.call_stack) = 2
    /\ vm.call_stack[1].locals = <<Some(NumberValue(1)), None>>
    /\ vm.call_stack[2].locals = <<Some(StringValue(<<97>>))>>
    /\ vm.stack = <<StringValue(<<97>>)>>

-----------------------------------------------------------------------------
(* Runs of letters: C28 *)

\* the keyword spellings the claim names and their tokens
KeywordSpellings ==
    KeywordArms \o
    << <<"TRALALERO", "Tralalero">>, <<"TRALALA", "Tralala">>, <<"DIDDLE", "Diddle">>,
       <<"RETREAT", "Retreat">>, <<"YOUSHALLNOTPASS", "Youshallnotpass">>,
       <<"RING", "Ring">>, <<"YAS", "Yas">> >>

\* the token the claim gives a run of letters
RunToken(run) ==
    LET keyword == {i \in 1..Len(KeywordSpellings) : Spelled(KeywordSpellings[i][1]) = run}
        braincell == {i \in 1..Len(BRAINCELLS) : chars(BRAINCELLS[i][1]) = run}
    IN  IF keyword # {} THEN Token(KeywordSpellings[CHOOSE i \in keyword : TRUE][2])
        ELSE IF braincell # {} THEN Braincell(BRAINCELLS[CHOOSE i \in braincell : TRUE][2])
        ELSE Identifier(run)

RECURSIVE Runs(_)
\* the maximal runs of letters of a text of letters and spaces
Runs(text) ==
    IF text = <<>> THEN <<>>
    ELSE IF text[1] = 32 THEN Runs(Tail(text))
    ELSE LET stop == {i \in 1..Len(text) : text[i] = 32}
             n == IF stop = {} THEN Len(text) ELSE (CHOOSE i \in stop : \A j \in stop : i <= j) - 1
         IN  <<SubSeq(text, 1, n)>> \o Runs(SubSeq(text, n + 1, Len(text)))

LettersAndSpaces(text) ==
    \A i \in 1..Len(text) : is_ascii_alphabetic(text[i]) \/ text[i] = 32

\* C28: for every maximal run of ASCII letters of the source the lexer emits
\* the keyword token when the run is spelled like a keyword (TRALALERO, TRALALA,
\* DIDDLE, RETREAT, YOUSHALLNOTPASS, RING and YAS included), the braincell token
\* with its index when it is a braincell name, and otherwise an identifier token
\* carrying the name; it never rejects a run of ASCII letters.
LetterRunsBecomeTokens ==
    (pc # "source" /\ LettersAndSpaces(source)) =>
        /\ tokens.ok
        /\ tokens.tokens = [i \in 1..Len(Runs(source)) |-> RunToken(Runs(source)[i])] \o <<Eof>>

-----------------------------------------------------------------------------
(* The shape of an accepted token stream: C26 *)

\* the position of the first ITS OVER of a token stream, or 0
FirstItsOver(ts) ==
    LET at == {i \in 1..Len(ts) - 1 : ts[i].kind = "Its" /\ ts[i + 1].kind = "Over"} IN
    IF at = {} THEN 0 ELSE CHOOSE i \in at : \A j \in at : i <= j

HasKind(ts, kind) == \E i \in 1..Len(ts) : ts[i].kind = kind

ParserAccepted == pc = "parsed" /\ parsed.ok
ParserRefused == pc = "parsed" /\ ~parsed.ok /\ parsed.err # ""

\* the tokens are the functions of the program, LOCK IN, its statements, ITS
\* OVER and Eof, in this order
WrittenAs(ts, p) == ts = ProgramTokens(p) \o <<Eof>>

\* C26: a token stream is accepted only if it is zero or more complete function
\* definitions, LOCK IN, zero or more statements, ITS OVER and Eof; a stream
\* without LOCK IN, with a function definition after the main block or with a
\* token other than Eof after ITS OVER is refused; and parse returns either a
\* program or an error on every stream.
AcceptedOnlyIfProgramShaped ==
    pc = "parsed" =>
        /\ ParserAccepted \/ ParserRefused
        /\ ParserAccepted => WrittenAs(tokens.tokens, parsed.program)
        /\ ~HasKind(tokens.tokens, "Lock") => ParserRefused
        /\ LET over == FirstItsOver(tokens.tokens) IN
           (over # 0 /\ tokens.tokens[over + 2].kind # "Eof") => ParserRefused

\* a stream of two function definitions and a main block with statements was
\* accepted
TwoFunctionsAccepted ==
    /\ ParserAccepted
    /\ Len(parsed.program.functions) = 2
    /\ parsed.program.main_statements # <<>>

-----------------------------------------------------------------------------
(* Precedence and associativity: C27 *)

\* multiply and divide bind tighter than add and subtract
Binds(op) == IF op \in {"Multiply", "Divide"} THEN 2 ELSE 1

RECURSIVE Grouping(_, _)
\* the tree of terms[1] ops[1] terms[2] ... : its root is the last of the
\* operators that bind least, so that equal operators group to the left and
\* tighter operators are grouped first
Grouping(terms, ops) ==
    IF ops = <<>> THEN terms[1]
    ELSE LET least == {i \in 1..Len(ops) : \A j \in 1..Len(ops) : Binds(ops[i]) <= Binds(ops[j])}
             root == CHOOSE i \in least : \A j \in least : j <= i
         IN  Binary(ops[root],
                    Grouping(SubSeq(terms, 1, root), SubSeq(ops, 1, root - 1)),
                    Grouping(SubSeq(terms, root + 1, Len(terms)),
                             SubSeq(ops, root + 1, Len(ops))))

\* the operators of a chain of tokens SAY 1 op 2 op 3 ...
OperatorsOf(ts) == [i \in 1..((Len(ts) - 7) \div 2) |-> ts[3 + 2 * i].kind]

IsChain(ts) == SubSeq(ts, 1, Len(ts) - 1) \in Chains

\* C27: an expression of terms and binary operators parses to the tree in which
\* multiply and divide bind tighter than add and subtract and operators of
\* equal precedence associate to the left; in particular a op1 b op2 c is
\* (a op1 b) op2 c unless op2 binds tighter than op1, and then a op1 (b op2 c).
ChainsGroupByPrecedenceToTheLeft ==
    (pc = "parsed" /\ IsChain(tokens.tokens)) =>
        LET ops == OperatorsOf(tokens.tokens)
            terms == [i \in 1..Len(ops) + 1 |-> Number(i)]
        IN  /\ parsed.ok
            /\ parsed.program = Program(<<>>, <<PrintStmt(Grouping(terms, ops))>>)
            /\ Len(ops) = 2 =>
                  parsed.program.main_statements[1].expr =
                      IF Binds(ops[2]) > Binds(ops[1])
                      THEN Binary(ops[1], Number(1), Binary(ops[2], Number(2), Number(3)))
                      ELSE Binary(ops[2], Binary(ops[1], Number(1), Number(2)), Number(3))

\* 1 - 2 * 3 - 4 was parsed: the middle operator binds tighter than the equal
\* operators around it
SubtractMultiplySubtractParsed ==
    /\ pc = "parsed"
    /\ IsChain(tokens.tokens)
    /\ OperatorsOf(tokens.tokens) = <<"Subtract", "Multiply", "Subtract">>
    /\ parsed.ok

-----------------------------------------------------------------------------
(* Assignment and copy: C25 *)

\* compile (compiler.rs:4-37) as one function of the program
compile(program) ==
    Let(compile_functions(CompilerNew, program.functions), LAMBDA funcs :
        IF funcs.err # "" THEN ArtifactErr(funcs.err)
        ELSE Let(compile_block([funcs EXCEPT !.function_code_parts = <<>>],
                               program.main_statements), LAMBDA main :
             IF main.err # "" THEN ArtifactErr(main.err)
             ELSE ArtifactOk(write_bytecode(finish(main, funcs.function_code_parts)))))

RECURSIVE ExchangedBlock(_)
RECURSIVE Exchanged(_)
\* the statement with FANUMTAX written for DIDDLE and DIDDLE for FANUMTAX
Exchanged(s) ==
    CASE s.k = "Assign" -> Copy(s.name, s.expr)
      [] s.k = "Copy" -> Assign(s.dest, s.source)
      [] s.k = "If" ->
            If(s.condition, ExchangedBlock(s.then_block),
               IF s.else_block = None THEN None ELSE Some(ExchangedBlock(s.else_block[1])))
      [] s.k = "While" -> While(s.condition, ExchangedBlock(s.body))
      [] OTHER -> s

ExchangedBlock(block) == [i \in 1..Len(block) |-> Exchanged(block[i])]

ExchangedProgram(p) ==
    Program([i \in 1..Len(p.functions) |->
                Function(p.functions[i].name, p.functions[i].params,
                         ExchangedBlock(p.functions[i].body))],
            ExchangedBlock(p.main_statements))

\* the tokens with FANUMTAX for DIDDLE and DIDDLE for FANUMTAX
ExchangedTokens(ts) ==
    [i \in 1..Len(ts) |->
        CASE ts[i].kind = "Fanumtax" -> Token("Diddle")
          [] ts[i].kind = "Diddle" -> Token("Fanumtax")
          [] OTHER -> ts[i]]

\* C25: the compiler emits the same bytes, or fails with the same error, when
\* every FANUMTAX name FR expr of a program is written DIDDLE name FR expr and
\* every DIDDLE is written FANUMTAX, in main and in function bodies; the parser
\* turns the exchanged keywords into the exchanged statements.
AssignAndCopyCompileAlike ==
    pc \in {"compiled", "compile_error"} =>
        /\ artifact = compile(prog)
        /\ artifact = compile(ExchangedProgram(prog))
        /\ LET written == ProgramTokens(prog) \o <<Eof>>
               one == parse(written)
               other == parse(ExchangedTokens(written))
           IN  /\ one.ok = other.ok
               /\ one.err = other.err
               /\ other.program = ExchangedProgram(one.program)

\* a program with a copy in main was compiled; one with an assignment to a
\* local in a function body is compiled in other behaviours
CopyCompiled ==
    /\ pc = "compiled"
    /\ artifact.ok
    /\ \E i \in 1..Len(prog.main_statements) : prog.main_statements[i].k = "Copy"

-----------------------------------------------------------------------------
(* Operands and the instruction pointer: C31 *)

\* the operand width of the opcodes that carry one
OperandWidth(op) ==
    CASE op \in {3, 4} -> 1
      [] op \in {15, 16} -> 2
      [] op \in {2, 11, 12, 13} -> 4
      [] OTHER -> 0

RECURSIVE LittleEndian(_)
\* the value of bytes, the first one the least significant
LittleEndian(bytes) ==
    IF bytes = <<>> THEN 0 ELSE bytes[1] + 256 * LittleEndian(Tail(bytes))

\* the bytes that follow the opcode at position p, as many as the operand has
\* or as the code section has left
OperandBytes(m, p) ==
    LET last == IF p + 1 + OperandWidth(m.code[p + 1]) <= Len(m.code)
                THEN p + 1 + OperandWidth(m.code[p + 1]) ELSE Len(m.code)
    IN  SubSeq(m.code, p + 2, last)

\* the machine is about to execute an opcode that carries an operand
AtOperandOpcode(m) ==
    /\ m.status \in {"Loaded", "Running"}
    /\ m.ip < Len(m.code)
    /\ OperandWidth(m.code[m.ip + 1]) > 0

\* a JUMP, or a JUMP_IF_FALSE that pops a falsy value
TakenJump(m) ==
    \/ m.code[m.ip + 1] = 11
    \/ m.code[m.ip + 1] = 12 /\ m.stack # <<>> /\ ~is_truthy(m.stack[Len(m.stack)])

\* a CALL whose operand is not one of the two built-ins
UserCall(m) == m.code[m.ip + 1] = 13 /\ LittleEndian(OperandBytes(m, m.ip)) >= 2

\* C31: an opcode with an operand that is executed at position p without
\* failing, and is not a taken jump or a user call, leaves the IP at p + 1 + the
\* operand width (1 for the global opcodes, 2 for the local opcodes, 4 for
\* LOAD_CONST, JUMP_IF_FALSE and built-in CALL), and LOAD_CONST pushes the
\* constant whose index is the little-endian value of the bytes that follow the
\* opcode, also when the code section ends before the operand is complete.
OperandReadAndSkipped ==
    [][(AtOperandOpcode(vm) /\ vm'.status = "Running" /\ ~TakenJump(vm) /\ ~UserCall(vm)) =>
          /\ vm'.ip = vm.ip + 1 + OperandWidth(vm.code[vm.ip + 1])
          /\ vm.code[vm.ip + 1] = 2 =>
                /\ LittleEndian(OperandBytes(vm, vm.ip)) < Len(vm.constants)
                /\ vm'.stack = Append(vm.stack,
                                      vm.constants[LittleEndian(OperandBytes(vm, vm.ip)) + 1])]_vars

-----------------------------------------------------------------------------
(* Calls before the declaration is complete: C32 *)

\* the user calls the compiler visits in a block, each with the number of
\* declarations that are complete where the block is compiled
CallsIn(block, complete) ==
    LET calls == SelectSeq(EventsOf(block_events(block, FALSE), "call"), LAMBDA x : x.user)
    IN  [i \in 1..Len(calls) |-> [name |-> calls[i].name, complete |-> complete]]

\* the user calls of the program in the order of the code section: main, where
\* every declaration is complete, then the k-th function, where k - 1 are
UserCalls ==
    CallsIn(prog.main_statements, Len(prog.functions))
        \o Flatten([k \in 1..Len(prog.functions) |-> CallsIn(prog.functions[k].body, k - 1)])

\* the complete declarations of the called name
Declared(call) == {j \in 1..call.complete : prog.functions[j].name = call.name}

Latest(S) == CHOOSE j \in S : \A i \in S : i <= j

CompileEnded == pc \in {"compiled", "compile_error"}

-----------------------------------------------------------------------------
(* The built-in calls: C33 *)

\* the machine is about to execute a CALL with a whole operand of 0 or 1
AtBuiltinCall(m) ==
    /\ m.status \in {"Loaded", "Running"}
    /\ m.ip + 5 <= Len(m.code)
    /\ m.code[m.ip + 1] = 13
    /\ LittleEndian(OperandBytes(m, m.ip)) \in {0, 1}

BuiltinIndex(m) == LittleEndian(OperandBytes(m, m.ip))

\* the number of scalar values of a UTF-8 string: its bytes that do not
\* continue a scalar value
Scalars(s) == Len(s) - Cardinality({i \in 1..Len(s) : s[i] \in 128..191})

\* one value was popped, the number n pushed, no frame pushed, and the IP is
\* behind the operand
TopReplaced(m, m2, n) ==
    /\ m2.status = "Running"
    /\ m2.stack = Append(SubSeq(m.stack, 1, Len(m.stack) - 1), NumberValue(n))
    /\ m2.call_stack = m.call_stack
    /\ m2.ip = m.ip + 5

StringOnTop(m) == m.stack # <<>> /\ m.stack[Len(m.stack)].t = "String"

\* C33 as stated: CALL 0 and CALL 1 pop one value and, when it is a string, push
\* one number (for RIZZED the number of scalar values), push no frame and go on
\* behind the operand; on a number or an empty stack they fail.
BuiltinPopsStringPushesNumber ==
    [][AtBuiltinCall(vm) =>
          IF StringOnTop(vm)
          THEN /\ \E n \in 0..MaxInt : TopReplaced(vm, vm', n)
               /\ BuiltinIndex(vm) = 1 => TopReplaced(vm, vm', Scalars(vm.stack[Len(vm.stack)].s))
          ELSE vm'.status = "Faulted"]_vars

\* the number a string of the pool is the decimal notation of, if any
Notated(s) == IF s = <<49>> THEN Some(1) ELSE None

FailedWith(m, m2, msg) == m2.status = "Faulted" /\ m2.error = msg

\* C33 amended: with 256 frames the call fails with 'call stack overflow'; on a
\* string RIZZED pushes its number of scalar values, TRANSFORM pushes the number
\* the string notates or fails with 'TRANSFORM: invalid number string' when it
\* notates none; on a number or an empty stack both fail.
BuiltinBelowLimitParsesOrCounts ==
    [][AtBuiltinCall(vm) =>
          LET top == vm.stack[Len(vm.stack)] IN
          CASE Len(vm.call_stack) >= CallStackLimit ->
                  FailedWith(vm, vm', "call stack overflow") /\ vm'.stack = vm.stack
            [] Len(vm.call_stack) < CallStackLimit /\ vm.stack = <<>> ->
                  FailedWith(vm, vm', "stack underflow")
            [] Len(vm.call_stack) < CallStackLimit /\ vm.stack # <<>> /\ top.t # "String" ->
                  /\ vm'.status = "Faulted"
                  /\ vm'.error = IF BuiltinIndex(vm) = 0
                                 THEN "TRANSFORM: expected string argument"
                                 ELSE "RIZZED: expected string argument"
                  /\ vm'.call_stack = vm.call_stack
            [] OTHER ->
                  IF BuiltinIndex(vm) = 1 THEN TopReplaced(vm, vm', Scalars(top.s))
                  ELSE IF Notated(top.s) # None THEN TopReplaced(vm, vm', Notated(top.s)[1])
                  ELSE FailedWith(vm, vm', "TRANSFORM: invalid number string")]_vars

\* RIZZED has replaced the string of two bytes by 1 in a frame
TwoByteScalarCounted ==
    /\ pc = "exec"
    /\ vm.status = "Running"
    /\ vm.call_stack # <<>>
    /\ vm.ip >= 10
    /\ SubSeq(vm.code, vm.ip - 9, vm.ip) = <<2, 3, 0, 0, 0, 13, 1, 0, 0, 0>>
    /\ vm.stack = <<NumberValue(1)>>

-----------------------------------------------------------------------------
(* Constant indexes of the artifact: C34 *)

\* the const_count of the artifact: the four bytes behind magic, version, flags
EmittedConstCount == LittleEndian(SubSeq(artifact.bytes, 9, 12))

\* the function table ends four bytes before the code section, which is last
TableStart == Len(artifact.bytes) - Len(comp.code) - 4 - 12 * Len(prog.functions)

\* the name_const_idx of the k-th entry of the function table
EmittedNameIndex(k) ==
    LittleEndian(SubSeq(artifact.bytes, TableStart + 12 * (k - 1) + 1,
                        TableStart + 12 * (k - 1) + 4))

\* the operands of the LOAD_CONST instructions of the code section
LoadConstOperands ==
    {Operand32(comp.code, p) : p \in {q \in Range(Instructions(comp.code, 0)) :
                                          Opcode(comp.code, q) = 2}}

\* C34: in the artifact of an accepted program every LOAD_CONST operand and
\* every name_const_idx is less than const_count, the constant at
\* name_const_idx is the function's name as a string, and no run of the
\* artifact fails with 'constant index out of bounds'.
ConstantIndexesInBounds ==
    Accepted =>
        /\ EmittedConstCount = Len(comp.constants)
        /\ \A idx \in LoadConstOperands : idx < EmittedConstCount
        /\ \A k \in 1..Len(prog.functions) :
              /\ EmittedNameIndex(k) < EmittedConstCount
              /\ comp.constants[EmittedNameIndex(k) + 1]
                     = ConstString(as_bytes(prog.functions[k].name))
        /\ pc = "exec" =>
              /\ vm.status # "Uninitialized" => Len(vm.constants) = EmittedConstCount
              /\ ~(vm.status = "Faulted" /\ vm.error = "constant index out of bounds")

-----------------------------------------------------------------------------
(* The order of the arguments: C35 *)

IsLiteral(e) == e.k \in {"Number", "String"}

LiteralValue(e) == IF e.k = "Number" THEN NumberValue(e.n) ELSE StringValue(e.s)

\* the program has one user call, in SAY RING YAS f(...) as the first statement
\* of main, and its arguments are literals
OneLiteralCall ==
    /\ Len(EventsOf(ProgramEvents(FALSE), "call")) = 1
    /\ prog.main_statements # <<>>
    /\ prog.main_statements[1].k = "Print"
    /\ prog.main_statements[1].expr.k = "UserFunctionCall"
    /\ \A i \in 1..Len(prog.main_statements[1].expr.args) :
          IsLiteral(prog.main_statements[1].expr.args[i])

\* the step is a CALL that has pushed a frame
CallEntered == pc = "exec" /\ Len(vm'.call_stack) = Len(vm.call_stack) + 1

\* C35: when a call with k >= 1 arguments enters a function of k parameters,
\* the i-th parameter holds the value of the i-th argument, for every i in 1..k.
ArgumentsReachParametersInOrder ==
    [][(CallEntered /\ OneLiteralCall) =>
          LET call == prog.main_statements[1].expr
              func == prog.functions[CallOperands(comp.code)[1] - 1]
              frame == vm'.call_stack[Len(vm'.call_stack)]
              k == Len(call.args)
          IN  (k >= 1 /\ k = Len(func.params) /\ Cardinality(Range(func.params)) = k) =>
                  \A i \in 1..k : frame.locals[i] = Some(LiteralValue(call.args[i]))]_vars

-----------------------------------------------------------------------------
(* Files that are not artifacts of the compiler: C36 *)

\* load or run has indexed a Vec beyond its length
IndexedOutside == vm.status = "Panicked"

\* C36: whatever bytes execute is given, load and run end with success or with
\* a RuntimeError: no step indexes beyond the constant pool, the function
\* table, the locals of a frame or the code, also when an entry of the function
\* table has a name_const_idx beyond the pool, an arity above its local_count
\* or a code_offset beyond the code.
ExecuteReturnsOnEveryFile ==
    pc = "exec" =>
        /\ ~IndexedOutside
        /\ vm.status \in {"Loaded", "Running", "Halted", "Faulted"}
        /\ \A i \in 1..Len(vm.call_stack) :
              \E k \in 1..Len(vm.functions) :
                  Len(vm.call_stack[i].locals) = vm.functions[k].local_count

-----------------------------------------------------------------------------
(* Programs without a loop and without a user call: C37 *)

\* the main block has no while statement, also inside an if
RECURSIVE NoWhile(_)
NoWhile(block) ==
    \A i \in 1..Len(block) :
        /\ block[i].k # "While"
        /\ block[i].k = "If" =>
              /\ NoWhile(block[i].then_block)
              /\ block[i].else_block # <<>> => NoWhile(block[i].else_block[1])

\* no while statement and no user call in the main block
Straight ==
    /\ NoWhile(prog.main_statements)
    /\ CallsIn(prog.main_statements, Len(prog.functions)) = <<>>

Ended == vm.status \in {"Halted", "Faulted"}

\* C37: the run of a compiled program whose main block has no while statement
\* and no user call ends, Halted or Faulted, when every read of INPUT returns:
\* every executed instruction leaves the IP greater than it was and not beyond
\* the end of the code, so that no more instructions execute than the code has
\* bytes.
StraightMainEnds ==
    /\ [][(pc = "exec" /\ Straight /\ vm' # vm) =>
             /\ vm'.ip > vm.ip
             /\ vm'.ip <= Len(vm.code)]_vars
    /\ (pc = "exec" /\ Straight) ~> Ended

\* the else block of an if was jumped to, over the code of the then block, in
\* a program with a function, and the run ended
ElseBlockReachedAndEnded ==
    /\ pc = "exec"
    /\ Straight
    /\ prog.functions # <<>>
    /\ vm.status = "Halted"
    /\ out = <<<<97>>>>

-----------------------------------------------------------------------------
(* The regions of the code section: C38 *)

\* the region of the code section position p lies in: 0 for the code of main,
\* k for the code of the k-th function, -1 behind the code
Region(p) ==
    IF p < main_code_size THEN 0
    ELSE LET inside == {k \in 1..Len(comp.functions) :
                           /\ comp.functions[k].code_offset <= p
                           /\ p < comp.functions[k].code_offset + Len(function_code_parts[k])}
         IN  IF inside = {} THEN -1 ELSE CHOOSE k \in inside : TRUE

Executing(m) == m.status \in {"Loaded", "Running"}

\* C38: in a run of an artifact of the compiler the IP is inside the code of
\* main whenever the call stack is empty and inside the code of a function
\* whenever it is not; an instruction that neither pushes nor pops a frame
\* leaves the IP in the region it was in, a CALL that pushes a frame leaves it
\* at the first byte of the called function, and a RETURN that pops one leaves
\* it at the return address of the frame.
IpStaysInItsRegion ==
    /\ []((pc = "exec" /\ Executing(vm)) =>
             IF vm.call_stack = <<>> THEN Region(vm.ip) = 0 ELSE Region(vm.ip) > 0)
    /\ [][(pc = "exec" /\ Executing(vm) /\ vm'.status = "Running") =>
             /\ Len(vm'.call_stack) = Len(vm.call_stack) =>
                   Region(vm'.ip) = Region(vm.ip)
             /\ Len(vm'.call_stack) > Len(vm.call_stack) =>
                   /\ Opcode(vm.code, vm.ip) = 13
                   /\ vm'.ip = comp.functions[Operand32(vm.code, vm.ip) - 1].code_offset
             /\ Len(vm'.call_stack) < Len(vm.call_stack) =>
                   /\ Opcode(vm.code, vm.ip) = 14
                   /\ vm'.ip = vm.call_stack[Len(vm.call_stack)].return_address]_vars

-----------------------------------------------------------------------------
(* What changes the globals: C39 *)

\* the next instruction is a STORE_GLOBAL
AtStoreGlobal(m) ==
    /\ Executing(m)
    /\ m.ip < Len(m.code)
    /\ m.code[m.ip + 1] = 4

\* the index the STORE_GLOBAL at the IP gives: the byte behind the opcode, and
\* 0 when the code ends with the opcode (vm.rs:342-349)
StoreIndex(m) == IF m.ip + 1 < Len(m.code) THEN m.code[m.ip + 2] ELSE 0

\* the STORE_GLOBAL at the IP has a slot and a value to store
StoreSucceeds(m) == AtStoreGlobal(m) /\ StoreIndex(m) < 7 /\ m.stack # <<>>

\* C39: only STORE_GLOBAL changes a global slot, and only the slot of its
\* operand, which then holds the popped value; every other instruction, CALL,
\* RETURN and STORE_LOCAL among them, and a STORE_GLOBAL that fails (index of 7
\* or more, or empty stack) leave the seven slots as they are; a slot that is
\* set is never unset again.
OnlyStoreGlobalChangesGlobals ==
    [][pc = "exec" =>
          /\ Len(vm'.globals) = 7
          /\ \A i \in 1..7 :
                /\ vm'.globals[i] # vm.globals[i] =>
                      /\ StoreSucceeds(vm)
                      /\ i = StoreIndex(vm) + 1
                      /\ vm'.globals[i] = Some(vm.stack[Len(vm.stack)])
                /\ vm.globals[i] # None => vm'.globals[i] # None
          /\ (AtStoreGlobal(vm) /\ ~StoreSucceeds(vm)) =>
                /\ vm'.status = "Faulted"
                /\ vm'.globals = vm.globals
          /\ StoreSucceeds(vm) =>
                vm'.globals[StoreIndex(vm) + 1] = Some(vm.stack[Len(vm.stack)])]_vars

\* inside a call, with slot 0 set and a value on the stack, a STORE_GLOBAL of
\* the index 7 has failed and slot 0 holds what it held
StoreFailedInsideCall ==
    /\ pc = "exec"
    /\ vm.status = "Faulted"
    /\ vm.error = "global index out of bounds"
    /\ vm.call_stack # <<>>
    /\ vm.stack # <<>>
    /\ vm.globals[1] = Some(StringValue(<<97>>))

====
